---- MODULE Spec2Model ----
(***************************************************************************)
(* Frontend of bris-webapp and the startup script of its backend.          *)
(*                                                                         *)
(* Spec     the client-side calculators page (frontend/app/calculator/     *)
(*          page.tsx, the variant with the five tabs Leverage / LCR /      *)
(*          NSFR / MREL / IRRBB).                                          *)
(* SpecSec  the securitization calculator page (the variant of the same    *)
(*          file that posts to the calculator endpoints).                  *)
(* SpecApp  the chat, calculator (securitization), documents and admin     *)
(*          pages and the requests they send; one page is loaded, and      *)
(*          navigation between pages is not modelled.                      *)
(* SpecLoading  the securitization and chat pages with every fetch         *)
(*          settling (weak fairness of the resumed handlers).              *)
(* SpecStartup  backend/startup.sh, one step per command.                  *)
(*                                                                         *)
(* Numbers are JavaScript numbers.  They are modelled as exact rationals   *)
(* [num, den] extended with the IEEE-754 special values: den = 0 stands    *)
(* for NaN (num = 0) and for +Infinity / -Infinity (num = 1 / -1).         *)
(* Rounding of binary doubles and the sign of zero are not modelled.       *)
(* Text typed into an input is a sequence of characters.                   *)
(*                                                                         *)
(* A handler that awaits a fetch is two steps: the handler up to the       *)
(* await, which sends the request, and the rest of the handler once the    *)
(* fetch has settled with an ok response, another status or a rejection.   *)
(* State updates of one step are applied together (the page has            *)
(* re-rendered before the next event).                                     *)
(***************************************************************************)
EXTENDS Integers, Sequences, FiniteSets, TLC

\* ------------------------------------------------------------------------
\* Bounds of the model
\* ------------------------------------------------------------------------
MaxAmount == 1
MaxUnits == 2
MaxMessages == 3
MaxInFlight == 2

\* ------------------------------------------------------------------------
\* JavaScript numbers
\* ------------------------------------------------------------------------
NaN == [num |-> 0, den |-> 0]

AbsInt(n) == IF n < 0 THEN -n ELSE n
SignInt(n) == IF n < 0 THEN -1 ELSE IF n = 0 THEN 0 ELSE 1

RECURSIVE GCD(_, _)
GCD(a, b) == IF b = 0 THEN a ELSE GCD(b, a % b)

\* the finite number n/d (d # 0), in lowest terms
Rat(n, d) ==
    LET s == SignInt(d)
        g == GCD(AbsInt(n), AbsInt(d))
    IN  [num |-> (s * n) \div g, den |-> AbsInt(d) \div g]

Num(n) == [num |-> n, den |-> 1]

IsNaN(x) == x.den = 0 /\ x.num = 0
IsInf(x) == x.den = 0 /\ x.num # 0
IsFinite(x) == x.den > 0
IsZero(x) == x.den > 0 /\ x.num = 0

Neg(x) == [num |-> -x.num, den |-> x.den]
Abs(x) == [num |-> AbsInt(x.num), den |-> x.den]

Add(x, y) ==
    IF IsNaN(x) \/ IsNaN(y) THEN NaN
    ELSE IF IsInf(x) /\ IsInf(y) THEN (IF x.num = y.num THEN x ELSE NaN)
    ELSE IF IsInf(x) THEN x
    ELSE IF IsInf(y) THEN y
    ELSE Rat(x.num * y.den + y.num * x.den, x.den * y.den)

Sub(x, y) == Add(x, Neg(y))

Mul(x, y) ==
    IF IsNaN(x) \/ IsNaN(y) THEN NaN
    ELSE IF IsInf(x) \/ IsInf(y)
         THEN (IF IsZero(x) \/ IsZero(y) THEN NaN
               ELSE [num |-> SignInt(x.num) * SignInt(y.num), den |-> 0])
    ELSE Rat(x.num * y.num, x.den * y.den)

Div(x, y) ==
    IF IsNaN(x) \/ IsNaN(y) THEN NaN
    ELSE IF IsInf(x)
         THEN (IF IsInf(y) THEN NaN
               ELSE [num |-> x.num * (IF y.num < 0 THEN -1 ELSE 1), den |-> 0])
    ELSE IF IsInf(y) THEN Num(0)
    ELSE IF IsZero(y)
         THEN (IF IsZero(x) THEN NaN ELSE [num |-> SignInt(x.num), den |-> 0])
    ELSE Rat(x.num * y.den, x.den * y.num)

\* x >= y ; every comparison with NaN is false
Ge(x, y) ==
    IF IsNaN(x) \/ IsNaN(y) THEN FALSE
    ELSE IF IsInf(x) THEN (x.num = 1 \/ y = x)
    ELSE IF IsInf(y) THEN y.num = -1
    ELSE x.num * y.den >= y.num * x.den

Gt(x, y) ==
    IF IsNaN(x) \/ IsNaN(y) THEN FALSE
    ELSE IF IsInf(x) THEN (x.num = 1 /\ y # x)
    ELSE IF IsInf(y) THEN y.num = -1
    ELSE x.num * y.den > y.num * x.den

Le(x, y) == Ge(y, x)

\* ToBoolean of a number: 0 and NaN are falsy
Truthy(x) == ~IsNaN(x) /\ ~IsZero(x)

\* a || b on numbers
OrElse(a, b) == IF Truthy(a) THEN a ELSE b

\* ------------------------------------------------------------------------
\* Text of the input fields and parseFloat
\* ------------------------------------------------------------------------
DigitChar == <<"0", "1", "2", "3", "4", "5", "6", "7", "8", "9">>

IsDigit(c) == \E d \in 1..10 : DigitChar[d] = c
DigitVal(c) == (CHOOSE d \in 1..10 : DigitChar[d] = c) - 1

RECURSIVE NatText(_)
NatText(n) == IF n < 10 THEN <<DigitChar[n + 1]>>
              ELSE Append(NatText(n \div 10), DigitChar[(n % 10) + 1])

\* the text a user types for the integer n
IntText(n) == IF n < 0 THEN <<"-">> \o NatText(-n) ELSE NatText(n)

EmptyText == <<>>

\* length of the longest prefix of s made of digits
RECURSIVE DigitPrefixLen(_)
DigitPrefixLen(s) ==
    IF s = <<>> \/ ~IsDigit(Head(s)) THEN 0 ELSE 1 + DigitPrefixLen(Tail(s))

RECURSIVE DigitsValue(_)
DigitsValue(s) ==
    IF s = <<>> THEN 0
    ELSE 10 * DigitsValue(SubSeq(s, 1, Len(s) - 1)) + DigitVal(s[Len(s)])

RECURSIVE Pow10(_)
Pow10(k) == IF k = 0 THEN 1 ELSE 10 * Pow10(k - 1)

\* parseFloat on decimal literals: optional sign, the longest run of digits,
\* then optionally a point and a run of digits; NaN when there is no digit
\* (exponents are not typed in the model)
ParseFloat(s) ==
    LET neg == s # <<>> /\ Head(s) = "-"
        body == IF neg THEN Tail(s) ELSE s
        k == DigitPrefixLen(body)
        rest == SubSeq(body, k + 1, Len(body))
        m == IF rest # <<>> /\ Head(rest) = "."
             THEN DigitPrefixLen(Tail(rest))
             ELSE 0
        digits == SubSeq(body, 1, k) \o SubSeq(rest, 2, m + 1)
    IN  IF k + m = 0 THEN NaN
        ELSE Rat((IF neg THEN -1 ELSE 1) * DigitsValue(digits), Pow10(m))

\* ------------------------------------------------------------------------
\* State
\* ------------------------------------------------------------------------
VARIABLES
    activeTab,   \* CalculatorPage: which calculator component is mounted
    fields,      \* the mounted component's form fields (useState strings)
    result,      \* the mounted component's result (useState<any>(null))
    outcome      \* what the last event handler run did: "idle" (the last
                 \* event was not a calculate click), "setResult" (calculate
                 \* stored a result) or "return" (calculate returned without
                 \* touching the state)

VARIABLES
    route,           \* the page the browser has loaded
    calculatorPage,  \* state of the securitization CalculatorPage: activeTab,
                     \* isLoading, result, comparison and the form inputs
    chatPage,        \* state of ChatPage
    adminPage,       \* state of AdminPage
    documentsPage,   \* state of DocumentsPage
    network,         \* the fetch requests sent and not yet settled, in the
                     \* order they were sent
    console,         \* the errors written with console.error so far
    lastEvent        \* the last step of a page: which handler ran, and the
                     \* response it handled if it resumed after a fetch

VARIABLES
    startup          \* backend/startup.sh: the command it is at, its shell
                     \* variables, the files it tests and writes, its output

calcVars == <<activeTab, fields, result, outcome>>
pageVars == <<route, calculatorPage, chatPage, adminPage, documentsPage,
              network, console, lastEvent, startup>>
vars == <<activeTab, fields, result, outcome,
          route, calculatorPage, chatPage, adminPage, documentsPage,
          network, console, lastEvent, startup>>
\* the variables of the frontend
frontendVars == <<activeTab, fields, result, outcome,
                  route, calculatorPage, chatPage, adminPage, documentsPage,
                  network, console, lastEvent>>

\* what the handlers of one page leave alone
offCalculatorPage == <<calcVars, route, chatPage, adminPage, documentsPage, startup>>
offChatPage == <<calcVars, route, calculatorPage, adminPage, documentsPage, startup>>
offAdminPage == <<calcVars, route, calculatorPage, chatPage, documentsPage, startup>>
offDocumentsPage == <<calcVars, route, calculatorPage, chatPage, adminPage, startup>>

Tabs == {"leverage", "lcr", "nsfr", "mrel", "irrbb"}

Null == [null |-> TRUE]

FieldNames(tab) ==
    CASE tab = "leverage" -> {"tier1", "exposure"}
      [] tab = "lcr" -> {"hqlaL1", "hqlaL2a", "retailStable", "retailLessStable"}
      [] tab = "nsfr" -> {"capitalLT", "stableRetail", "hqlaL1", "mortgages"}
      [] tab = "mrel" -> {"cet1", "at1", "tier2", "seniorNP", "rwa"}
      [] tab = "irrbb" -> {"gap1y", "gap5y", "gap10y", "tier1"}

\* every field of every calculator starts as useState('')
InitFields(tab) == [f \in FieldNames(tab) |-> EmptyText]

\* The integers typed into a field (besides the empty text).
SmallAmounts == 0..MaxAmount
SignedAmounts == -1..MaxAmount
Units == -1..MaxUnits

TypedValues(tab, f) ==
    CASE tab = "leverage" /\ f = "tier1" -> {3 * k : k \in Units}
      [] tab = "leverage" /\ f = "exposure" -> {100 * k : k \in Units}
      [] tab = "lcr" /\ f = "retailStable" -> {20 * k : k \in Units}
      [] tab = "lcr" /\ f = "retailLessStable" -> {10 * k : k \in Units}
      [] tab = "nsfr" /\ f = "hqlaL1" -> {20 * k : k \in Units}
      [] tab = "nsfr" /\ f = "mortgages" -> {20 * k : k \in Units}
      [] tab = "mrel" /\ f = "cet1" -> {9 * k : k \in 0..MaxUnits}
      [] tab = "mrel" /\ f = "rwa" -> {50 * k : k \in 0..MaxUnits}
      [] tab = "irrbb" /\ f = "gap1y" -> {3 * k : k \in Units}
      [] tab = "irrbb" /\ f \in {"gap5y", "gap10y"} -> SignedAmounts
      [] OTHER -> SmallAmounts

FieldTexts(tab, f) == {EmptyText} \cup {IntText(n) : n \in TypedValues(tab, f)}

\* ------------------------------------------------------------------------
\* LeverageCalculator
\* ------------------------------------------------------------------------
LeverageMinimum == Num(3)

\* LeverageCalc with the minimum compared strictly (ratio > 3.0)
LeverageCalc_StrictMinimum(tier1, exposure, prev) ==
    LET t1 == ParseFloat(tier1)
        exp == ParseFloat(exposure)
        ratio == Mul(Div(t1, exp), Num(100))
        compliant == Gt(ratio, LeverageMinimum)
    IN  IF Truthy(t1) /\ Truthy(exp)
        THEN [result |-> [ratio |-> ratio, compliant |-> compliant,
                          buffer |-> Sub(ratio, LeverageMinimum)],
              outcome |-> "setResult"]
        ELSE [result |-> prev, outcome |-> "return"]

\* LeverageCalc with the operands of the division swapped (exp / t1)
LeverageCalc_SwappedOperands(tier1, exposure, prev) ==
    LET t1 == ParseFloat(tier1)
        exp == ParseFloat(exposure)
        ratio == Mul(Div(exp, t1), Num(100))
        compliant == Ge(ratio, LeverageMinimum)
    IN  IF Truthy(t1) /\ Truthy(exp)
        THEN [result |-> [ratio |-> ratio, compliant |-> compliant,
                          buffer |-> Sub(ratio, LeverageMinimum)],
              outcome |-> "setResult"]
        ELSE [result |-> prev, outcome |-> "return"]

\* calculate(): the new result and what the handler did, from the two
\* fields and the result held before the click
LeverageCalc(tier1, exposure, prev) ==
    LET t1 == ParseFloat(tier1)
        exp == ParseFloat(exposure)
        ratio == Mul(Div(t1, exp), Num(100))
        compliant == Ge(ratio, LeverageMinimum)
    IN  IF Truthy(t1) /\ Truthy(exp)
        THEN [result |-> [ratio |-> ratio, compliant |-> compliant,
                          buffer |-> Sub(ratio, LeverageMinimum)],
              outcome |-> "setResult"]
        ELSE [result |-> prev, outcome |-> "return"]

LeverageCalculate ==
    /\ activeTab = "leverage"
    /\ LET r == LeverageCalc(fields["tier1"], fields["exposure"], result)
       IN  /\ result' = r.result
           /\ outcome' = r.outcome
    /\ UNCHANGED <<activeTab, fields>>
    /\ UNCHANGED pageVars

\* ------------------------------------------------------------------------
\* LCRCalculator
\* ------------------------------------------------------------------------
LCRMinimum == Num(100)

\* LCRCalc without the outflows > 0 guard on the division
LCRCalc_NoOutflowGuard(hqlaL1, hqlaL2a, retailStable, retailLessStable, prev) ==
    LET l1 == OrElse(ParseFloat(hqlaL1), Num(0))
        l2a == OrElse(ParseFloat(hqlaL2a), Num(0))
        rs == OrElse(ParseFloat(retailStable), Num(0))
        rls == OrElse(ParseFloat(retailLessStable), Num(0))
        hqla == Add(l1, Mul(l2a, Rat(85, 100)))
        outflows == Add(Mul(rs, Rat(5, 100)), Mul(rls, Rat(10, 100)))
        lcr == Mul(Div(hqla, outflows), Num(100))
        compliant == Ge(lcr, LCRMinimum)
    IN  [result |-> [lcr |-> lcr, compliant |-> compliant,
                     hqla |-> hqla, outflows |-> outflows],
         outcome |-> "setResult"]

\* LCRCalc with the 0.85 haircut applied to Level 1 instead of Level 2A
LCRCalc_HaircutOnLevel1(hqlaL1, hqlaL2a, retailStable, retailLessStable, prev) ==
    LET l1 == OrElse(ParseFloat(hqlaL1), Num(0))
        l2a == OrElse(ParseFloat(hqlaL2a), Num(0))
        rs == OrElse(ParseFloat(retailStable), Num(0))
        rls == OrElse(ParseFloat(retailLessStable), Num(0))
        hqla == Add(Mul(l1, Rat(85, 100)), l2a)
        outflows == Add(Mul(rs, Rat(5, 100)), Mul(rls, Rat(10, 100)))
        lcr == IF Gt(outflows, Num(0))
               THEN Mul(Div(hqla, outflows), Num(100))
               ELSE Num(0)
        compliant == Ge(lcr, LCRMinimum)
    IN  [result |-> [lcr |-> lcr, compliant |-> compliant,
                     hqla |-> hqla, outflows |-> outflows],
         outcome |-> "setResult"]

\* LCRCalc with the two retail run-off rates exchanged
LCRCalc_SwappedRunOffRates(hqlaL1, hqlaL2a, retailStable, retailLessStable, prev) ==
    LET l1 == OrElse(ParseFloat(hqlaL1), Num(0))
        l2a == OrElse(ParseFloat(hqlaL2a), Num(0))
        rs == OrElse(ParseFloat(retailStable), Num(0))
        rls == OrElse(ParseFloat(retailLessStable), Num(0))
        hqla == Add(l1, Mul(l2a, Rat(85, 100)))
        outflows == Add(Mul(rs, Rat(10, 100)), Mul(rls, Rat(5, 100)))
        lcr == IF Gt(outflows, Num(0))
               THEN Mul(Div(hqla, outflows), Num(100))
               ELSE Num(0)
        compliant == Ge(lcr, LCRMinimum)
    IN  [result |-> [lcr |-> lcr, compliant |-> compliant,
                     hqla |-> hqla, outflows |-> outflows],
         outcome |-> "setResult"]

LCRCalc(hqlaL1, hqlaL2a, retailStable, retailLessStable, prev) ==
    LET l1 == OrElse(ParseFloat(hqlaL1), Num(0))
        l2a == OrElse(ParseFloat(hqlaL2a), Num(0))
        rs == OrElse(ParseFloat(retailStable), Num(0))
        rls == OrElse(ParseFloat(retailLessStable), Num(0))
        hqla == Add(l1, Mul(l2a, Rat(85, 100)))
        outflows == Add(Mul(rs, Rat(5, 100)), Mul(rls, Rat(10, 100)))
        lcr == IF Gt(outflows, Num(0))
               THEN Mul(Div(hqla, outflows), Num(100))
               ELSE Num(0)
        compliant == Ge(lcr, LCRMinimum)
    IN  [result |-> [lcr |-> lcr, compliant |-> compliant,
                     hqla |-> hqla, outflows |-> outflows],
         outcome |-> "setResult"]

LCRCalculate ==
    /\ activeTab = "lcr"
    /\ LET r == LCRCalc(fields["hqlaL1"], fields["hqlaL2a"],
                        fields["retailStable"], fields["retailLessStable"],
                        result)
       IN  /\ result' = r.result
           /\ outcome' = r.outcome
    /\ UNCHANGED <<activeTab, fields>>
    /\ UNCHANGED pageVars

\* ------------------------------------------------------------------------
\* NSFRCalculator
\* ------------------------------------------------------------------------
NSFRMinimum == Num(100)

\* NSFRCalc with the minimum compared strictly (nsfr > 100)
NSFRCalc_StrictMinimum(capitalLT, stableRetail, hqlaL1, mortgages, prev) ==
    LET clt == OrElse(ParseFloat(capitalLT), Num(0))
        sr == OrElse(ParseFloat(stableRetail), Num(0))
        l1 == OrElse(ParseFloat(hqlaL1), Num(0))
        mtg == OrElse(ParseFloat(mortgages), Num(0))
        asf == Add(Mul(clt, Num(1)), Mul(sr, Rat(95, 100)))
        rsf == Add(Mul(l1, Rat(5, 100)), Mul(mtg, Rat(65, 100)))
        nsfr == IF Gt(rsf, Num(0))
                THEN Mul(Div(asf, rsf), Num(100))
                ELSE Num(0)
        compliant == Gt(nsfr, NSFRMinimum)
    IN  [result |-> [nsfr |-> nsfr, compliant |-> compliant,
                     asf |-> asf, rsf |-> rsf],
         outcome |-> "setResult"]

\* NSFRCalc with the corporate-loan factor 0.85 applied to mortgages
NSFRCalc_MortgageFactor85(capitalLT, stableRetail, hqlaL1, mortgages, prev) ==
    LET clt == OrElse(ParseFloat(capitalLT), Num(0))
        sr == OrElse(ParseFloat(stableRetail), Num(0))
        l1 == OrElse(ParseFloat(hqlaL1), Num(0))
        mtg == OrElse(ParseFloat(mortgages), Num(0))
        asf == Add(Mul(clt, Num(1)), Mul(sr, Rat(95, 100)))
        rsf == Add(Mul(l1, Rat(5, 100)), Mul(mtg, Rat(85, 100)))
        nsfr == IF Gt(rsf, Num(0))
                THEN Mul(Div(asf, rsf), Num(100))
                ELSE Num(0)
        compliant == Ge(nsfr, NSFRMinimum)
    IN  [result |-> [nsfr |-> nsfr, compliant |-> compliant,
                     asf |-> asf, rsf |-> rsf],
         outcome |-> "setResult"]

NSFRCalc(capitalLT, stableRetail, hqlaL1, mortgages, prev) ==
    LET clt == OrElse(ParseFloat(capitalLT), Num(0))
        sr == OrElse(ParseFloat(stableRetail), Num(0))
        l1 == OrElse(ParseFloat(hqlaL1), Num(0))
        mtg == OrElse(ParseFloat(mortgages), Num(0))
        asf == Add(Mul(clt, Num(1)), Mul(sr, Rat(95, 100)))
        rsf == Add(Mul(l1, Rat(5, 100)), Mul(mtg, Rat(65, 100)))
        nsfr == IF Gt(rsf, Num(0))
                THEN Mul(Div(asf, rsf), Num(100))
                ELSE Num(0)
        compliant == Ge(nsfr, NSFRMinimum)
    IN  [result |-> [nsfr |-> nsfr, compliant |-> compliant,
                     asf |-> asf, rsf |-> rsf],
         outcome |-> "setResult"]

NSFRCalculate ==
    /\ activeTab = "nsfr"
    /\ LET r == NSFRCalc(fields["capitalLT"], fields["stableRetail"],
                         fields["hqlaL1"], fields["mortgages"], result)
       IN  /\ result' = r.result
           /\ outcome' = r.outcome
    /\ UNCHANGED <<activeTab, fields>>
    /\ UNCHANGED pageVars

\* ------------------------------------------------------------------------
\* MRELCalculator
\* ------------------------------------------------------------------------
\* const requirement = 18; // 18% of RWA
MRELRequirement == Num(18)

\* MRELCalc with senior non-preferred left out of the total
MRELCalc_OmitsSeniorNP(cet1, at1, tier2, seniorNP, rwa, prev) ==
    LET c1 == OrElse(ParseFloat(cet1), Num(0))
        a1 == OrElse(ParseFloat(at1), Num(0))
        t2 == OrElse(ParseFloat(tier2), Num(0))
        r == OrElse(ParseFloat(rwa), Num(1))
        totalMREL == Add(Add(c1, a1), t2)
        mrelRatio == Mul(Div(totalMREL, r), Num(100))
        requirement == MRELRequirement
        compliant == Ge(mrelRatio, requirement)
    IN  [result |-> [mrelRatio |-> mrelRatio, compliant |-> compliant,
                     totalMREL |-> totalMREL, requirement |-> requirement,
                     buffer |-> Sub(mrelRatio, requirement)],
         outcome |-> "setResult"]

MRELCalc(cet1, at1, tier2, seniorNP, rwa, prev) ==
    LET c1 == OrElse(ParseFloat(cet1), Num(0))
        a1 == OrElse(ParseFloat(at1), Num(0))
        t2 == OrElse(ParseFloat(tier2), Num(0))
        snp == OrElse(ParseFloat(seniorNP), Num(0))
        r == OrElse(ParseFloat(rwa), Num(1))
        totalMREL == Add(Add(Add(c1, a1), t2), snp)
        mrelRatio == Mul(Div(totalMREL, r), Num(100))
        requirement == MRELRequirement
        compliant == Ge(mrelRatio, requirement)
    IN  [result |-> [mrelRatio |-> mrelRatio, compliant |-> compliant,
                     totalMREL |-> totalMREL, requirement |-> requirement,
                     buffer |-> Sub(mrelRatio, requirement)],
         outcome |-> "setResult"]

MRELCalculate ==
    /\ activeTab = "mrel"
    /\ LET r == MRELCalc(fields["cet1"], fields["at1"], fields["tier2"],
                         fields["seniorNP"], fields["rwa"], result)
       IN  /\ result' = r.result
           /\ outcome' = r.outcome
    /\ UNCHANGED <<activeTab, fields>>
    /\ UNCHANGED pageVars

\* ------------------------------------------------------------------------
\* IRRBBCalculator
\* ------------------------------------------------------------------------
\* const threshold = 15; // 15% of Tier 1
IRRBBThreshold == Num(15)

\* IRRBBCalc with the leading minus sign of deltaEVE dropped
IRRBBCalc_SignDropped(gap1y, gap5y, gap10y, tier1, prev) ==
    LET g1 == OrElse(ParseFloat(gap1y), Num(0))
        g5 == OrElse(ParseFloat(gap5y), Num(0))
        g10 == OrElse(ParseFloat(gap10y), Num(0))
        t1 == OrElse(ParseFloat(tier1), Num(1))
        shock == Rat(2, 100)
        deltaEVE == Add(Add(Mul(Mul(g1, Num(1)), shock),
                            Mul(Mul(g5, Rat(45, 10)), shock)),
                        Mul(Mul(g10, Num(8)), shock))
        deltaPercent == Mul(Div(Abs(deltaEVE), t1), Num(100))
        compliant == Le(deltaPercent, IRRBBThreshold)
    IN  [result |-> [deltaEVE |-> deltaEVE, deltaPercent |-> deltaPercent,
                     compliant |-> compliant, threshold |-> IRRBBThreshold],
         outcome |-> "setResult"]

IRRBBCalc(gap1y, gap5y, gap10y, tier1, prev) ==
    LET g1 == OrElse(ParseFloat(gap1y), Num(0))
        g5 == OrElse(ParseFloat(gap5y), Num(0))
        g10 == OrElse(ParseFloat(gap10y), Num(0))
        t1 == OrElse(ParseFloat(tier1), Num(1))
        shock == Rat(2, 100)
        duration1y == Num(1)
        duration5y == Rat(45, 10)
        duration10y == Num(8)
        deltaEVE == Neg(Add(Add(Mul(Mul(g1, duration1y), shock),
                                Mul(Mul(g5, duration5y), shock)),
                            Mul(Mul(g10, duration10y), shock)))
        deltaPercent == Mul(Div(Abs(deltaEVE), t1), Num(100))
        threshold == IRRBBThreshold
        compliant == Le(deltaPercent, threshold)
    IN  [result |-> [deltaEVE |-> deltaEVE, deltaPercent |-> deltaPercent,
                     compliant |-> compliant, threshold |-> threshold],
         outcome |-> "setResult"]

IRRBBCalculate ==
    /\ activeTab = "irrbb"
    /\ LET r == IRRBBCalc(fields["gap1y"], fields["gap5y"], fields["gap10y"],
                          fields["tier1"], result)
       IN  /\ result' = r.result
           /\ outcome' = r.outcome
    /\ UNCHANGED <<activeTab, fields>>
    /\ UNCHANGED pageVars

\* ------------------------------------------------------------------------
\* Typing into a field, switching tab
\* ------------------------------------------------------------------------
SetField(f, s) ==
    /\ f \in FieldNames(activeTab)
    /\ s \in FieldTexts(activeTab, f)
    /\ s # fields[f]
    /\ fields' = [fields EXCEPT ![f] = s]
    /\ outcome' = "idle"
    /\ UNCHANGED <<activeTab, result>>
    /\ UNCHANGED pageVars

\* the calculator of the old tab is unmounted, the new one mounts with its
\* initial state
SetActiveTab(tab) ==
    /\ tab \in Tabs
    /\ tab # activeTab
    /\ activeTab' = tab
    /\ fields' = InitFields(tab)
    /\ result' = Null
    /\ outcome' = "idle"
    /\ UNCHANGED pageVars

\* ------------------------------------------------------------------------
\* Securitization page (CalculatorPage backed by the calculator endpoints)
\* ------------------------------------------------------------------------
InputNames == {"kirb", "lgd", "maturity", "attachment", "detachment", "poolSize"}

Approaches == {"SEC-IRBA", "SEC-SA"}

\* useState initial values
InitCalculatorPage ==
    [activeTab |-> "securitization",
     isLoading |-> FALSE,
     result |-> Null,
     comparison |-> Null,
     kirb |-> <<"4", ".", "0">>,
     lgd |-> <<"4", "0">>,
     maturity |-> <<"4">>,
     attachment |-> <<"5">>,
     detachment |-> <<"1", "5">>,
     poolSize |-> <<"1", "0", "0", "0">>,
     approach |-> "SEC-IRBA",
     isSts |-> FALSE]

\* The texts typed into an input besides its initial text. The model types
\* into one input at a time, the other inputs holding their initial text.
InputTexts(f) ==
    CASE f = "kirb" -> {EmptyText, <<"2", ".", "5">>}
      [] f = "lgd" -> {<<"4", "5">>}
      [] f = "maturity" -> {<<"2", ".", "5">>}
      [] f = "attachment" -> {<<"0">>}
      [] f = "detachment" -> {<<"1", "0", "0">>}
      [] f = "poolSize" -> {EmptyText}

TypedInputs ==
    {[f \in InputNames |-> InitCalculatorPage[f]]}
        \cup {[f \in InputNames |-> IF f = g THEN s ELSE InitCalculatorPage[f]] :
                 g \in InputNames, s \in UNION {InputTexts(h) : h \in InputNames}}

\* JSON.stringify writes NaN and the infinities as null
JsonNumber(x) == IF IsFinite(x) THEN x ELSE Null

CalculateUrl == "/api/v1/calculator/securitization"
CompareUrl == "/api/v1/calculator/securitization/compare"

\* CalculateBody with lgd sent as typed (not divided by 100)
CalculateBody_LgdUnscaled(p) ==
    [kirb |-> JsonNumber(Div(ParseFloat(p.kirb), Num(100))),
     lgd |-> JsonNumber(ParseFloat(p.lgd)),
     maturity |-> JsonNumber(ParseFloat(p.maturity)),
     attachment |-> JsonNumber(Div(ParseFloat(p.attachment), Num(100))),
     detachment |-> JsonNumber(Div(ParseFloat(p.detachment), Num(100))),
     pool_size |-> JsonNumber(ParseFloat(p.poolSize)),
     approach |-> p.approach,
     is_sts |-> p.isSts]

\* the body of the calculate request for page state p
CalculateBody(p) ==
    [kirb |-> JsonNumber(Div(ParseFloat(p.kirb), Num(100))),
     lgd |-> JsonNumber(Div(ParseFloat(p.lgd), Num(100))),
     maturity |-> JsonNumber(ParseFloat(p.maturity)),
     attachment |-> JsonNumber(Div(ParseFloat(p.attachment), Num(100))),
     detachment |-> JsonNumber(Div(ParseFloat(p.detachment), Num(100))),
     pool_size |-> JsonNumber(ParseFloat(p.poolSize)),
     approach |-> p.approach,
     is_sts |-> p.isSts]

\* CompareBody with attachment sent as typed (not divided by 100)
CompareBody_AttachmentUnscaled(p) ==
    [kirb |-> JsonNumber(Div(ParseFloat(p.kirb), Num(100))),
     lgd |-> JsonNumber(Div(ParseFloat(p.lgd), Num(100))),
     maturity |-> JsonNumber(ParseFloat(p.maturity)),
     attachment |-> JsonNumber(ParseFloat(p.attachment)),
     detachment |-> JsonNumber(Div(ParseFloat(p.detachment), Num(100))),
     pool_size |-> JsonNumber(ParseFloat(p.poolSize)),
     is_sts |-> p.isSts]

\* the body of the compare request for page state p
CompareBody(p) ==
    [kirb |-> JsonNumber(Div(ParseFloat(p.kirb), Num(100))),
     lgd |-> JsonNumber(Div(ParseFloat(p.lgd), Num(100))),
     maturity |-> JsonNumber(ParseFloat(p.maturity)),
     attachment |-> JsonNumber(Div(ParseFloat(p.attachment), Num(100))),
     detachment |-> JsonNumber(Div(ParseFloat(p.detachment), Num(100))),
     pool_size |-> JsonNumber(ParseFloat(p.poolSize)),
     is_sts |-> p.isSts]

\* What a fetch settles with: a response with an ok status and its JSON
\* data, a response with another status, or a rejection (network failure).
OkResponse(data) == [kind |-> "ok", status |-> 200, data |-> data]
HttpError(status) == [kind |-> "http", status |-> status, data |-> Null]
NetworkError == [kind |-> "network", status |-> 0, data |-> Null]

ErrorStatuses == {422, 503}

Failures == {HttpError(st) : st \in ErrorStatuses} \cup {NetworkError}

\* risk weights (percent) a result of the backend carries
RiskWeights == {15, 1250}

\* SecuritizationResult values returned for a calculate request
SecuritizationResults(body) ==
    {[approach |-> body.approach, risk_weight |-> w] : w \in RiskWeights}

\* compare with the difference of the risk weights signed (SEC-IRBA minus
\* SEC-SA)
Compare_SignedDifference(irba, sa) ==
    {[sec_irba |-> irba,
      sec_sa |-> sa,
      optimal_approach |-> r.approach,
      rw_difference |-> irba.risk_weight - sa.risk_weight] :
        r \in {x \in {irba, sa} :
                 \A y \in {irba, sa} : x.risk_weight <= y.risk_weight}}

\* compare() of the backend, given the results of the two approaches on
\* identical tranche and pool parameters: the approach with the lower risk
\* weight is the optimal one (either of them when the risk weights are
\* equal, which the contract leaves open), and rw_difference is the distance
\* between the two risk weights.
Compare(irba, sa) ==
    {[sec_irba |-> irba,
      sec_sa |-> sa,
      optimal_approach |-> r.approach,
      rw_difference |-> AbsInt(irba.risk_weight - sa.risk_weight)] :
        r \in {x \in {irba, sa} :
                 \A y \in {irba, sa} : x.risk_weight <= y.risk_weight}}

\* ComparisonResult values returned for a compare request
ComparisonResults ==
    UNION {Compare([approach |-> "SEC-IRBA", risk_weight |-> w1],
                   [approach |-> "SEC-SA", risk_weight |-> w2]) :
              w1 \in RiskWeights, w2 \in RiskWeights}

\* null of a string-valued state
NullId == "null"

ChatUrl == "/api/v1/chat/"

SessionIds == {"s1", "s2"}

\* a source and a suggested query of an answer
Source1 == [title |-> "CRR", excerpt |-> "Article 429"]
Suggestion1 == <<"M", "R", "E", "L">>

\* the answer text of a chat response
Answer == <<"answer">>

\* chat responses: the answer, the session id, the sources and suggestions
ChatResponses ==
    {[answer |-> Answer, session_id |-> "s1", sources |-> <<>>,
      suggestions |-> <<>>],
     [answer |-> Answer, session_id |-> "s2", sources |-> <<Source1>>,
      suggestions |-> <<Suggestion1>>]}

SourcesUrl == "/api/v1/admin/sources"
IndexedStatsUrl == "/api/v1/admin/indexed-stats"
DiscoverUrl == "/api/v1/admin/sources/${sourceId}/discover"
ScrapeUrl == "/api/v1/admin/sources/${sourceId}/scrape"
ReindexUrl == "/api/v1/admin/reindex"
DocumentsStatsUrl == "/api/v1/documents/stats"
SearchUrl == "/api/v1/documents/search"

SourceIds == {"eba", "ecb"}

SourceOf(id, enabled) == [id |-> id, scraping_enabled |-> enabled]

\* the source lists of a sources response: none, scraping enabled, scraping
\* disabled (production)
SourceLists ==
    {<<>>,
     <<SourceOf("eba", TRUE), SourceOf("ecb", TRUE)>>,
     <<SourceOf("eba", FALSE), SourceOf("ecb", FALSE)>>}

IndexedStats1 == [total_chunks |-> 10, total_documents |-> 2]

DiscoveredDoc1 == [title |-> "Guidelines", type |-> "guideline"]

ScrapeResultOf(id) == [source |-> id, status |-> "completed", errors |-> <<>>]

DocumentStats1 == [total_chunks |-> 10, total_documents |-> 2,
                   topics |-> {"mrel"}]

SearchResult1 == [title |-> "CRR", excerpt |-> "Article 429"]

ResponseData(req) ==
    CASE req.url = CalculateUrl -> SecuritizationResults(req.body)
      [] req.url = CompareUrl -> ComparisonResults
      [] req.url = ChatUrl -> ChatResponses
      [] req.url = SourcesUrl -> {[sources |-> l] : l \in SourceLists}
      [] req.url = IndexedStatsUrl -> {IndexedStats1}
      [] req.url = DiscoverUrl -> {[documents |-> <<>>],
                                   [documents |-> <<DiscoveredDoc1>>]}
      [] req.url = ScrapeUrl -> {ScrapeResultOf(req.body.source_id)}
      [] req.url = ReindexUrl -> {[status |-> "started"]}
      [] req.url = DocumentsStatsUrl -> {DocumentStats1}
      [] req.url = SearchUrl -> {[results |-> <<>>],
                                 [results |-> <<SearchResult1>>]}

Responses(req) == Failures \cup {OkResponse(d) : d \in ResponseData(req)}

\* network without its i-th request
Settle(i) == SubSeq(network, 1, i - 1) \o SubSeq(network, i + 1, Len(network))

Event(handler, response) == [handler |-> handler, response |-> response]

\* onChange of a text input
SetInput(f, s) ==
    /\ route = "/calculator"
    /\ calculatorPage.activeTab = "securitization"
    /\ f \in InputNames
    /\ s # calculatorPage[f]
    /\ [g \in InputNames |-> IF g = f THEN s ELSE calculatorPage[g]] \in TypedInputs
    /\ calculatorPage' = [calculatorPage EXCEPT ![f] = s]
    /\ lastEvent' = Event("setInput", Null)
    /\ UNCHANGED <<network, console>>
    /\ UNCHANGED offCalculatorPage

\* onChange of the approach radio buttons
SetApproach(a) ==
    /\ route = "/calculator"
    /\ calculatorPage.activeTab = "securitization"
    /\ a \in Approaches
    /\ a # calculatorPage.approach
    /\ calculatorPage' = [calculatorPage EXCEPT !.approach = a]
    /\ lastEvent' = Event("setApproach", Null)
    /\ UNCHANGED <<network, console>>
    /\ UNCHANGED offCalculatorPage

\* onChange of the STS checkbox
SetIsSts(b) ==
    /\ route = "/calculator"
    /\ calculatorPage.activeTab = "securitization"
    /\ b \in BOOLEAN
    /\ b # calculatorPage.isSts
    /\ calculatorPage' = [calculatorPage EXCEPT !.isSts = b]
    /\ lastEvent' = Event("setIsSts", Null)
    /\ UNCHANGED <<network, console>>
    /\ UNCHANGED offCalculatorPage

\* the Securitization / Leverage Ratio tab buttons
SetPageTab(tab) ==
    /\ route = "/calculator"
    /\ tab \in {"securitization", "leverage"}
    /\ tab # calculatorPage.activeTab
    /\ calculatorPage' = [calculatorPage EXCEPT !.activeTab = tab]
    /\ lastEvent' = Event("setActiveTab", Null)
    /\ UNCHANGED <<network, console>>
    /\ UNCHANGED offCalculatorPage

\* click on "Calcular RW" (rendered in the securitization tab, disabled
\* while isLoading): calculateSecuritization up to its await
calculateSecuritization ==
    /\ route = "/calculator"
    /\ calculatorPage.activeTab = "securitization"
    /\ ~calculatorPage.isLoading
    /\ calculatorPage' = [calculatorPage EXCEPT !.isLoading = TRUE,
                                                !.result = Null,
                                                !.comparison = Null]
    /\ network' = Append(network, [url |-> CalculateUrl,
                                    body |-> CalculateBody(calculatorPage)])
    /\ lastEvent' = Event("calculateSecuritization", Null)
    /\ UNCHANGED console
    /\ UNCHANGED offCalculatorPage

\* compareApproaches without setResult(null)
compareApproaches_KeepsResult ==
    /\ route = "/calculator"
    /\ calculatorPage.activeTab = "securitization"
    /\ ~calculatorPage.isLoading
    /\ calculatorPage' = [calculatorPage EXCEPT !.isLoading = TRUE,
                                                !.comparison = Null]
    /\ network' = Append(network, [url |-> CompareUrl,
                                    body |-> CompareBody(calculatorPage)])
    /\ lastEvent' = Event("compareApproaches", Null)
    /\ UNCHANGED console
    /\ UNCHANGED offCalculatorPage

\* click on "Comparar": compareApproaches up to its await
compareApproaches ==
    /\ route = "/calculator"
    /\ calculatorPage.activeTab = "securitization"
    /\ ~calculatorPage.isLoading
    /\ calculatorPage' = [calculatorPage EXCEPT !.isLoading = TRUE,
                                                !.result = Null,
                                                !.comparison = Null]
    /\ network' = Append(network, [url |-> CompareUrl,
                                    body |-> CompareBody(calculatorPage)])
    /\ lastEvent' = Event("compareApproaches", Null)
    /\ UNCHANGED console
    /\ UNCHANGED offCalculatorPage

\* calculateSecuritization with setIsLoading(false) at the end of the try
\* block instead of in a finally block
AfterCalculate_NoFinally(p, c, r) ==
    IF r.kind = "ok"
    THEN [page |-> [p EXCEPT !.result = r.data, !.isLoading = FALSE],
          console |-> c]
    ELSE [page |-> p,
          console |-> c \cup {IF r.kind = "http"
                              THEN "Error: Error en el calculo"
                              ELSE "TypeError: Failed to fetch"}]

\* The rest of calculateSecuritization once its fetch has settled with
\* response r, as the page state and console it leaves: setResult(data) on an
\* ok response, console.error in the catch block otherwise, and
\* setIsLoading(false) in the finally block.
AfterCalculate(p, c, r) ==
    IF r.kind = "ok"
    THEN [page |-> [p EXCEPT !.result = r.data, !.isLoading = FALSE],
          console |-> c]
    ELSE [page |-> [p EXCEPT !.isLoading = FALSE],
          console |-> c \cup {IF r.kind = "http"
                              THEN "Error: Error en el calculo"
                              ELSE "TypeError: Failed to fetch"}]

\* the rest of compareApproaches once its fetch has settled with response r
AfterCompare(p, c, r) ==
    IF r.kind = "ok"
    THEN [page |-> [p EXCEPT !.comparison = r.data, !.isLoading = FALSE],
          console |-> c]
    ELSE [page |-> [p EXCEPT !.isLoading = FALSE],
          console |-> c \cup {IF r.kind = "http"
                              THEN "Error: Error en la comparacion"
                              ELSE "TypeError: Failed to fetch"}]

calculateSecuritizationSettled(i, r) ==
    /\ route = "/calculator"
    /\ i \in DOMAIN network
    /\ network[i].url = CalculateUrl
    /\ r \in Responses(network[i])
    /\ LET after == AfterCalculate(calculatorPage, console, r)
       IN  /\ calculatorPage' = after.page
           /\ console' = after.console
    /\ network' = Settle(i)
    /\ lastEvent' = Event("calculateSecuritization", r)
    /\ UNCHANGED offCalculatorPage

compareApproachesSettled(i, r) ==
    /\ route = "/calculator"
    /\ i \in DOMAIN network
    /\ network[i].url = CompareUrl
    /\ r \in Responses(network[i])
    /\ LET after == AfterCompare(calculatorPage, console, r)
       IN  /\ calculatorPage' = after.page
           /\ console' = after.console
    /\ network' = Settle(i)
    /\ lastEvent' = Event("compareApproaches", r)
    /\ UNCHANGED offCalculatorPage

\* ------------------------------------------------------------------------
\* Chat page
\* ------------------------------------------------------------------------
\* useState initial values
InitChatPage ==
    [messages |-> <<>>,
     input |-> EmptyText,
     isLoading |-> FALSE,
     sessionId |-> NullId,
     selectedSource |-> Null]

\* the texts typed into the textarea
ChatTexts == {EmptyText, <<" ">>, <<"q">>}

\* EXAMPLE_QUERIES (one of the four)
ExampleQueries == {<<"M", "R", "E", "L">>}

\* String.prototype.trim: s without its leading and trailing blanks
RECURSIVE Trim(_)
Trim(s) ==
    IF s = <<>> THEN s
    ELSE IF Head(s) = " " THEN Trim(Tail(s))
    ELSE IF s[Len(s)] = " " THEN Trim(SubSeq(s, 1, Len(s) - 1))
    ELSE s

ErrorContent ==
    <<"Lo siento, ha ocurrido un error al procesar tu consulta. Por favor, intenta de nuevo.">>

UserMessage(text) ==
    [role |-> "user", content |-> text, sources |-> <<>>, suggestions |-> <<>>]

AssistantMessage(data) ==
    [role |-> "assistant", content |-> data.answer, sources |-> data.sources,
     suggestions |-> data.suggestions]

ErrorMessage ==
    [role |-> "assistant", content |-> ErrorContent, sources |-> <<>>,
     suggestions |-> <<>>]

\* the suggestions rendered under the messages
Suggestions(p) ==
    UNION {{p.messages[k].suggestions[j] : j \in DOMAIN p.messages[k].suggestions} :
              k \in DOMAIN p.messages}

\* the sources rendered under the messages (the first three of each)
RenderedSources(p) ==
    UNION {{p.messages[k].sources[j] :
               j \in {n \in DOMAIN p.messages[k].sources : n <= 3}} :
              k \in DOMAIN p.messages}

\* onChange of the textarea (disabled while isLoading)
SetChatInput(s) ==
    /\ route = "/chat"
    /\ ~chatPage.isLoading
    /\ s \in ChatTexts
    /\ s # chatPage.input
    /\ chatPage' = [chatPage EXCEPT !.input = s]
    /\ lastEvent' = Event("setInput", Null)
    /\ UNCHANGED <<network, console>>
    /\ UNCHANGED offChatPage

\* sendMessage without the isLoading test of its guard
sendMessage_NoLoadingGuard(messageText) ==
    /\ route = "/chat"
    /\ \/ messageText = EmptyText /\ ~chatPage.isLoading
       \/ messageText \in ExampleQueries /\ chatPage.messages = <<>>
       \/ messageText \in Suggestions(chatPage)
    /\ LET text == IF messageText # EmptyText THEN messageText
                   ELSE chatPage.input
       IN  IF Trim(text) = EmptyText
           THEN /\ lastEvent' = Event("sendMessage.return", Null)
                /\ UNCHANGED <<chatPage, network>>
           ELSE /\ Len(chatPage.messages) < MaxMessages
                /\ chatPage' = [chatPage EXCEPT
                                   !.messages = Append(@, UserMessage(text)),
                                   !.input = EmptyText,
                                   !.isLoading = TRUE]
                /\ network' = Append(network,
                                 [url |-> ChatUrl,
                                  body |-> [message |-> text,
                                            session_id |-> chatPage.sessionId,
                                            include_sources |-> TRUE,
                                            language |-> "es"]])
                /\ lastEvent' = Event("sendMessage", Null)
    /\ UNCHANGED console
    /\ UNCHANGED offChatPage

\* sendMessage up to its await. It is called without a text (messageText
\* empty, as falsy as undefined) by the send button and by Enter in the
\* textarea, with an example query while there is no message, and with a
\* suggestion of a message.
sendMessage(messageText) ==
    /\ route = "/chat"
    /\ \/ messageText = EmptyText /\ ~chatPage.isLoading
       \/ messageText \in ExampleQueries /\ chatPage.messages = <<>>
       \/ messageText \in Suggestions(chatPage)
    /\ LET text == IF messageText # EmptyText THEN messageText
                   ELSE chatPage.input
       IN  IF Trim(text) = EmptyText \/ chatPage.isLoading
           THEN /\ lastEvent' = Event("sendMessage.return", Null)
                /\ UNCHANGED <<chatPage, network>>
           ELSE /\ Len(chatPage.messages) < MaxMessages
                /\ chatPage' = [chatPage EXCEPT
                                   !.messages = Append(@, UserMessage(text)),
                                   !.input = EmptyText,
                                   !.isLoading = TRUE]
                /\ network' = Append(network,
                                 [url |-> ChatUrl,
                                  body |-> [message |-> text,
                                            session_id |-> chatPage.sessionId,
                                            include_sources |-> TRUE,
                                            language |-> "es"]])
                /\ lastEvent' = Event("sendMessage", Null)
    /\ UNCHANGED console
    /\ UNCHANGED offChatPage

\* sendMessage resumed with a catch block that appends no message
AfterSend_SilentFailure(p, c, r) ==
    IF r.kind = "ok"
    THEN [page |-> [p EXCEPT !.sessionId = r.data.session_id,
                             !.messages = Append(@, AssistantMessage(r.data)),
                             !.isLoading = FALSE],
          console |-> c]
    ELSE [page |-> [p EXCEPT !.isLoading = FALSE],
          console |-> c \cup {IF r.kind = "http"
                              THEN "Error: Error en la respuesta del servidor"
                              ELSE "TypeError: Failed to fetch"}]

\* The rest of sendMessage once its fetch has settled with response r:
\* setSessionId and the assistant message on an ok response, console.error
\* and the error message in the catch block otherwise, setIsLoading(false)
\* in the finally block.
AfterSend(p, c, r) ==
    IF r.kind = "ok"
    THEN [page |-> [p EXCEPT !.sessionId = r.data.session_id,
                             !.messages = Append(@, AssistantMessage(r.data)),
                             !.isLoading = FALSE],
          console |-> c]
    ELSE [page |-> [p EXCEPT !.messages = Append(@, ErrorMessage),
                             !.isLoading = FALSE],
          console |-> c \cup {IF r.kind = "http"
                              THEN "Error: Error en la respuesta del servidor"
                              ELSE "TypeError: Failed to fetch"}]

sendMessageSettled(i, r) ==
    /\ route = "/chat"
    /\ i \in DOMAIN network
    /\ network[i].url = ChatUrl
    /\ r \in Responses(network[i])
    /\ LET after == AfterSend(chatPage, console, r)
       IN  /\ chatPage' = after.page
           /\ console' = after.console
    /\ network' = Settle(i)
    /\ lastEvent' = Event("sendMessage", r)
    /\ UNCHANGED offChatPage

\* clearChat without setSessionId(null)
clearChat_KeepsSession ==
    /\ route = "/chat"
    /\ chatPage' = [chatPage EXCEPT !.messages = <<>>,
                                    !.selectedSource = Null]
    /\ lastEvent' = Event("clearChat", Null)
    /\ UNCHANGED <<network, console>>
    /\ UNCHANGED offChatPage

\* "Nueva conversacion"
clearChat ==
    /\ route = "/chat"
    /\ chatPage' = [chatPage EXCEPT !.messages = <<>>,
                                    !.sessionId = NullId,
                                    !.selectedSource = Null]
    /\ lastEvent' = Event("clearChat", Null)
    /\ UNCHANGED <<network, console>>
    /\ UNCHANGED offChatPage

\* click on a source of a message, or on the close button of the source
\* panel (source = Null)
SetSelectedSource(source) ==
    /\ route = "/chat"
    /\ \/ source \in RenderedSources(chatPage)
       \/ source = Null /\ chatPage.selectedSource # Null
    /\ source # chatPage.selectedSource
    /\ chatPage' = [chatPage EXCEPT !.selectedSource = source]
    /\ lastEvent' = Event("setSelectedSource", Null)
    /\ UNCHANGED <<network, console>>
    /\ UNCHANGED offChatPage

\* ------------------------------------------------------------------------
\* Admin page
\* ------------------------------------------------------------------------
\* useState initial values
InitAdminPage ==
    [sources |-> <<>>,
     stats |-> Null,
     isLoading |-> TRUE,
     scrapingSource |-> NullId,
     scrapeResult |-> Null,
     discoveredDocs |-> <<>>,
     discoveringSource |-> NullId,
     error |-> NullId,
     isProductionMode |-> FALSE]

\* the ids of the sources listed (the list is rendered when not isLoading)
ListedSources(p) ==
    IF p.isLoading THEN {} ELSE {p.sources[k].id : k \in DOMAIN p.sources}

\* loadData up to its first await, on page state p: the page it leaves and
\* the request it sends
LoadDataStart(p) ==
    [page |-> [p EXCEPT !.isLoading = TRUE, !.error = NullId],
     request |-> [url |-> SourcesUrl, body |-> Null]]

\* click on "Actualizar"
loadData ==
    /\ route = "/admin"
    /\ Len(network) < MaxInFlight
    /\ adminPage' = LoadDataStart(adminPage).page
    /\ network' = Append(network, LoadDataStart(adminPage).request)
    /\ lastEvent' = Event("loadData", Null)
    /\ UNCHANGED console
    /\ UNCHANGED offAdminPage

\* The rest of loadData once the sources fetch has settled with response r:
\* the page it leaves, what it logs and the requests it sends. A response is
\* used when ok and skipped otherwise, and the stats fetch follows; a
\* rejected fetch goes to the catch and finally blocks.
AfterSources(p, r) ==
    IF r.kind = "network"
    THEN [page |-> [p EXCEPT
                       !.error = "Error al cargar datos. El backend puede no estar disponible.",
                       !.isLoading = FALSE],
          logs |-> {"TypeError: Failed to fetch"},
          requests |-> <<>>]
    ELSE [page |-> IF r.kind = "ok"
                   THEN [p EXCEPT
                            !.sources = r.data.sources,
                            !.isProductionMode =
                                IF /\ Len(r.data.sources) > 0
                                   /\ r.data.sources[1].scraping_enabled = FALSE
                                THEN TRUE ELSE @]
                   ELSE p,
          logs |-> {},
          requests |-> <<[url |-> IndexedStatsUrl, body |-> Null]>>]

loadDataSourcesSettled(i, r) ==
    /\ route = "/admin"
    /\ i \in DOMAIN network
    /\ network[i].url = SourcesUrl
    /\ r \in Responses(network[i])
    /\ LET after == AfterSources(adminPage, r)
       IN  /\ adminPage' = after.page
           /\ console' = console \cup after.logs
           /\ network' = Settle(i) \o after.requests
    /\ lastEvent' = Event("loadData", r)
    /\ UNCHANGED offAdminPage

\* the rest of loadData once the stats fetch has settled with response r
AfterIndexedStats(p, r) ==
    [page |-> [p EXCEPT
                  !.stats = IF r.kind = "ok" THEN r.data ELSE @,
                  !.error = IF r.kind = "network"
                            THEN "Error al cargar datos. El backend puede no estar disponible."
                            ELSE @,
                  !.isLoading = FALSE],
     logs |-> IF r.kind = "network" THEN {"TypeError: Failed to fetch"} ELSE {},
     requests |-> <<>>]

loadDataStatsSettled(i, r) ==
    /\ route = "/admin"
    /\ i \in DOMAIN network
    /\ network[i].url = IndexedStatsUrl
    /\ r \in Responses(network[i])
    /\ LET after == AfterIndexedStats(adminPage, r)
       IN  /\ adminPage' = after.page
           /\ console' = console \cup after.logs
           /\ network' = Settle(i) \o after.requests
    /\ lastEvent' = Event("loadData", r)
    /\ UNCHANGED offAdminPage

\* click on "Descubrir" of a listed source (disabled while that source is
\* being discovered and in production mode)
discoverDocuments(sourceId) ==
    /\ route = "/admin"
    /\ sourceId \in ListedSources(adminPage)
    /\ adminPage.discoveringSource # sourceId
    /\ ~adminPage.isProductionMode
    /\ Len(network) < MaxInFlight
    /\ adminPage' = [adminPage EXCEPT !.discoveringSource = sourceId,
                                      !.discoveredDocs = <<>>]
    /\ network' = Append(network, [url |-> DiscoverUrl,
                                    body |-> [source_id |-> sourceId]])
    /\ lastEvent' = Event("discoverDocuments", Null)
    /\ UNCHANGED console
    /\ UNCHANGED offAdminPage

\* the rest of discoverDocuments once its fetch has settled
AfterDiscover(p, r) ==
    [page |-> [p EXCEPT
                  !.discoveredDocs = IF r.kind = "ok" THEN r.data.documents ELSE @,
                  !.error = CASE r.kind = "ok" -> @
                              [] r.kind = "http" -> "Error al descubrir documentos"
                              [] r.kind = "network" -> "Error de conexion",
                  !.discoveringSource = NullId],
     logs |-> {},
     requests |-> <<>>]

discoverDocumentsSettled(i, r) ==
    /\ route = "/admin"
    /\ i \in DOMAIN network
    /\ network[i].url = DiscoverUrl
    /\ r \in Responses(network[i])
    /\ LET after == AfterDiscover(adminPage, r)
       IN  /\ adminPage' = after.page
           /\ console' = console \cup after.logs
           /\ network' = Settle(i) \o after.requests
    /\ lastEvent' = Event("discoverDocuments", r)
    /\ UNCHANGED offAdminPage

\* the disabled attribute of the "Actualizar RAG" button of source id
ScrapeDisabled(p, id) == p.scrapingSource = id \/ p.isProductionMode

\* click on "Actualizar RAG" of a listed source (disabled while that source
\* is being scraped and in production mode)
startScraping(sourceId) ==
    /\ route = "/admin"
    /\ sourceId \in ListedSources(adminPage)
    /\ adminPage.scrapingSource # sourceId
    /\ ~adminPage.isProductionMode
    /\ Len(network) < MaxInFlight
    /\ adminPage' = [adminPage EXCEPT !.scrapingSource = sourceId,
                                      !.scrapeResult = Null]
    /\ network' = Append(network, [url |-> ScrapeUrl,
                                    body |-> [source_id |-> sourceId,
                                              index_immediately |-> TRUE]])
    /\ lastEvent' = Event("startScraping", Null)
    /\ UNCHANGED console
    /\ UNCHANGED offAdminPage

\* startScraping with the request sent again when it has failed
AfterScrape_RetryOnFailure(p, r, req) ==
    IF r.kind = "ok"
    THEN LET reload == LoadDataStart([p EXCEPT !.scrapeResult = r.data])
         IN  [page |-> [reload.page EXCEPT !.scrapingSource = NullId],
              logs |-> {},
              requests |-> <<reload.request>>]
    ELSE [page |-> [p EXCEPT
                       !.error = IF r.kind = "http"
                                 THEN "Error al iniciar scraping"
                                 ELSE "Error de conexion"],
          logs |-> {},
          requests |-> <<req>>]

\* The rest of startScraping once its fetch of request req has settled:
\* on an ok response setScrapeResult and a call of loadData (which runs up
\* to its first await), setError otherwise, and setScrapingSource(null) in
\* the finally block.
AfterScrape(p, r, req) ==
    IF r.kind = "ok"
    THEN LET reload == LoadDataStart([p EXCEPT !.scrapeResult = r.data])
         IN  [page |-> [reload.page EXCEPT !.scrapingSource = NullId],
              logs |-> {},
              requests |-> <<reload.request>>]
    ELSE [page |-> [p EXCEPT
                       !.error = IF r.kind = "http"
                                 THEN "Error al iniciar scraping"
                                 ELSE "Error de conexion",
                       !.scrapingSource = NullId],
          logs |-> {},
          requests |-> <<>>]

startScrapingSettled(i, r) ==
    /\ route = "/admin"
    /\ i \in DOMAIN network
    /\ network[i].url = ScrapeUrl
    /\ r \in Responses(network[i])
    /\ LET after == AfterScrape(adminPage, r, network[i])
       IN  /\ adminPage' = after.page
           /\ console' = console \cup after.logs
           /\ network' = Settle(i) \o after.requests
    /\ lastEvent' = Event("startScraping", r)
    /\ UNCHANGED offAdminPage

\* click on "Reindexar documentos locales" (rendered with the stats when
\* not isLoading)
triggerReindex ==
    /\ route = "/admin"
    /\ ~adminPage.isLoading
    /\ adminPage.stats # Null
    /\ Len(network) < MaxInFlight
    /\ network' = Append(network, [url |-> ReindexUrl, body |-> Null])
    /\ lastEvent' = Event("triggerReindex", Null)
    /\ UNCHANGED <<adminPage, console>>
    /\ UNCHANGED offAdminPage

\* the rest of triggerReindex once its fetch has settled: an alert on an ok
\* response, setError when the fetch was rejected
AfterReindex(p, r) ==
    [page |-> [p EXCEPT !.error = IF r.kind = "network"
                                  THEN "Error al iniciar reindexacion"
                                  ELSE @],
     logs |-> {},
     requests |-> <<>>]

triggerReindexSettled(i, r) ==
    /\ route = "/admin"
    /\ i \in DOMAIN network
    /\ network[i].url = ReindexUrl
    /\ r \in Responses(network[i])
    /\ LET after == AfterReindex(adminPage, r)
       IN  /\ adminPage' = after.page
           /\ console' = console \cup after.logs
           /\ network' = Settle(i) \o after.requests
    /\ lastEvent' = Event("triggerReindex", r)
    /\ UNCHANGED offAdminPage

\* click on the close button of the error banner
DismissError ==
    /\ route = "/admin"
    /\ adminPage.error # NullId
    /\ adminPage' = [adminPage EXCEPT !.error = NullId]
    /\ lastEvent' = Event("setError", Null)
    /\ UNCHANGED <<network, console>>
    /\ UNCHANGED offAdminPage

\* ------------------------------------------------------------------------
\* Documents page
\* ------------------------------------------------------------------------
\* useState initial values
InitDocumentsPage ==
    [stats |-> Null,
     searchQuery |-> EmptyText,
     searchResults |-> <<>>,
     selectedTopic |-> NullId,
     isLoading |-> FALSE,
     isSearching |-> FALSE]

\* the texts typed into the search box
SearchTexts == {EmptyText, <<" ">>, <<"q">>}

\* the topics offered by the select: those of the stats
Topics(p) == IF p.stats = Null THEN {} ELSE p.stats.topics

\* the rest of fetchStats once its fetch has settled
AfterFetchStats(p, r) ==
    [page |-> [p EXCEPT !.stats = IF r.kind = "ok" THEN r.data ELSE @,
                        !.isLoading = FALSE],
     logs |-> IF r.kind = "network" THEN {"TypeError: Failed to fetch"} ELSE {},
     requests |-> <<>>]

fetchStatsSettled(i, r) ==
    /\ route = "/documents"
    /\ i \in DOMAIN network
    /\ network[i].url = DocumentsStatsUrl
    /\ r \in Responses(network[i])
    /\ LET after == AfterFetchStats(documentsPage, r)
       IN  /\ documentsPage' = after.page
           /\ console' = console \cup after.logs
           /\ network' = Settle(i) \o after.requests
    /\ lastEvent' = Event("fetchStats", r)
    /\ UNCHANGED offDocumentsPage

\* onChange of the search box
SetSearchQuery(s) ==
    /\ route = "/documents"
    /\ s \in SearchTexts
    /\ s # documentsPage.searchQuery
    /\ documentsPage' = [documentsPage EXCEPT !.searchQuery = s]
    /\ lastEvent' = Event("setSearchQuery", Null)
    /\ UNCHANGED <<network, console>>
    /\ UNCHANGED offDocumentsPage

\* onChange of the topic select ("Todos los temas" gives null)
SetSelectedTopic(topic) ==
    /\ route = "/documents"
    /\ topic \in Topics(documentsPage) \cup {NullId}
    /\ topic # documentsPage.selectedTopic
    /\ documentsPage' = [documentsPage EXCEPT !.selectedTopic = topic]
    /\ lastEvent' = Event("setSelectedTopic", Null)
    /\ UNCHANGED <<network, console>>
    /\ UNCHANGED offDocumentsPage

\* handleSearch up to its await, called by the search button (disabled
\* while isSearching) and by Enter in the search box
handleSearch(byButton) ==
    /\ route = "/documents"
    /\ byButton => ~documentsPage.isSearching
    /\ IF Trim(documentsPage.searchQuery) = EmptyText
       THEN /\ lastEvent' = Event("handleSearch.return", Null)
            /\ UNCHANGED <<documentsPage, network>>
       ELSE /\ Len(network) < MaxInFlight
            /\ documentsPage' = [documentsPage EXCEPT !.isSearching = TRUE]
            /\ network' = Append(network,
                             [url |-> SearchUrl,
                              body |-> [query |-> documentsPage.searchQuery,
                                        top_k |-> 10,
                                        topic_filter |-> documentsPage.selectedTopic]])
            /\ lastEvent' = Event("handleSearch", Null)
    /\ UNCHANGED console
    /\ UNCHANGED offDocumentsPage

\* the rest of handleSearch once its fetch has settled
AfterSearch(p, r) ==
    [page |-> [p EXCEPT !.searchResults = IF r.kind = "ok" THEN r.data.results ELSE @,
                        !.isSearching = FALSE],
     logs |-> IF r.kind = "network" THEN {"TypeError: Failed to fetch"} ELSE {},
     requests |-> <<>>]

handleSearchSettled(i, r) ==
    /\ route = "/documents"
    /\ i \in DOMAIN network
    /\ network[i].url = SearchUrl
    /\ r \in Responses(network[i])
    /\ LET after == AfterSearch(documentsPage, r)
       IN  /\ documentsPage' = after.page
           /\ console' = console \cup after.logs
           /\ network' = Settle(i) \o after.requests
    /\ lastEvent' = Event("handleSearch", r)
    /\ UNCHANGED offDocumentsPage

\* What the page shows for state p: in the securitization tab the inputs, the
\* two buttons (disabled and labelled "Calculando..." while isLoading), the
\* single result card, the comparison card and, when both are null, the
\* empty state; in the leverage tab a placeholder.
Render(p) ==
    IF p.activeTab = "securitization"
    THEN [activeTab |-> p.activeTab,
          inputs |-> [f \in InputNames \cup {"approach", "isSts"} |-> p[f]],
          buttonsDisabled |-> p.isLoading,
          singleResult |-> p.result,
          comparisonResult |-> p.comparison,
          emptyState |-> (p.result = Null /\ p.comparison = Null)]
    ELSE [activeTab |-> p.activeTab,
          inputs |-> Null,
          buttonsDisabled |-> FALSE,
          singleResult |-> Null,
          comparisonResult |-> Null,
          emptyState |-> FALSE]

\* ------------------------------------------------------------------------
\* backend/startup.sh
\* ------------------------------------------------------------------------
\* VECTORDB_VERSION
VECTORDB_VERSION == "v1.5.0"

\* what $VECTORDB_PATH/.version holds when the script starts: no file
\* (NullId), the version expected or an older one
VersionFiles == {NullId, "v1.0.0", "v1.4.0", VECTORDB_VERSION}

\* curl --retry 3
Retries == 3

\* exit statuses of curl: HTTP error (--fail), timeout
CurlHttpError == 22
CurlTimeout == 28

\* The script about to run its first command, with chroma.sqlite3 present
\* or not and the .version file as given: pc is the command it is at,
\* currentVersion is $CURRENT_VERSION, archive is /tmp/vectordb.tar.gz,
\* retries counts the retries of curl, exit is $? and stdout the lines
\* echoed.
StartupOf(chroma, versionFile) ==
    [pc |-> "start",
     chroma |-> chroma,
     versionFile |-> versionFile,
     currentVersion |-> "",
     archive |-> "none",
     retries |-> 0,
     exit |-> 0,
     stdout |-> <<>>]

\* CURRENT_VERSION="" and, when the .version file exists, its content
ReadVersion ==
    /\ startup.pc = "start"
    /\ startup' = [startup EXCEPT
                      !.currentVersion = IF startup.versionFile # NullId
                                         THEN startup.versionFile ELSE "",
                      !.stdout = Append(@, "=== BRIS Backend Starting ==="),
                      !.pc = "check"]
    /\ UNCHANGED frontendVars

\* CheckVectorDb with the test of the first version of the script: only
\* [ ! -f chroma.sqlite3 ]
CheckVectorDb_IgnoresVersion ==
    /\ startup.pc = "check"
    /\ startup' =
          IF ~startup.chroma
          THEN [startup EXCEPT
                   !.stdout = Append(@, "VectorDB needs update. Downloading"),
                   !.pc = "remove"]
          ELSE [startup EXCEPT !.pc = "found"]
    /\ UNCHANGED frontendVars

\* if [ ! -f chroma.sqlite3 ] || [ "$CURRENT_VERSION" != "$VECTORDB_VERSION" ]
CheckVectorDb ==
    /\ startup.pc = "check"
    /\ startup' =
          IF ~startup.chroma \/ startup.currentVersion # VECTORDB_VERSION
          THEN [startup EXCEPT
                   !.stdout = Append(@, "VectorDB needs update. Downloading"),
                   !.pc = "remove"]
          ELSE [startup EXCEPT !.pc = "found"]
    /\ UNCHANGED frontendVars

\* rm -rf "$VECTORDB_PATH"
RemoveOld ==
    /\ startup.pc = "remove"
    /\ startup' = [startup EXCEPT !.chroma = FALSE,
                                  !.versionFile = NullId,
                                  !.pc = "mkdir"]
    /\ UNCHANGED frontendVars

\* mkdir -p "$VECTORDB_PATH"
MakeDir ==
    /\ startup.pc = "mkdir"
    /\ startup' = [startup EXCEPT !.pc = "curl"]
    /\ UNCHANGED frontendVars

\* curl -L --fail --retry 3 -o /tmp/vectordb.tar.gz: a transfer that
\* completes, one that fails for good (HTTP error), or one that fails
\* transiently, which curl retries up to Retries times
Download(transfer) ==
    /\ startup.pc = "curl"
    /\ transfer \in {"ok", "http", "transient"}
    /\ startup' =
          CASE transfer = "ok" ->
                 [startup EXCEPT !.archive = "complete", !.exit = 0,
                                 !.pc = "test"]
            [] transfer = "http" ->
                 [startup EXCEPT !.exit = CurlHttpError, !.pc = "test"]
            [] transfer = "transient" ->
                 IF startup.retries < Retries
                 THEN [startup EXCEPT !.retries = @ + 1]
                 ELSE [startup EXCEPT !.archive = "partial",
                                      !.exit = CurlTimeout,
                                      !.pc = "test"]
    /\ UNCHANGED frontendVars

\* if [ $? -eq 0 ]
TestExit ==
    /\ startup.pc = "test"
    /\ startup' =
          IF startup.exit = 0
          THEN [startup EXCEPT
                   !.stdout = Append(@, "Download complete. Extracting..."),
                   !.pc = "extract"]
          ELSE [startup EXCEPT !.pc = "failed"]
    /\ UNCHANGED frontendVars

\* tar -xzf /tmp/vectordb.tar.gz -C /app/: extracts chroma.sqlite3, or fails
Extract(ok) ==
    /\ startup.pc = "extract"
    /\ ok \in BOOLEAN
    /\ startup' = [startup EXCEPT !.chroma = ok, !.pc = "rmArchive"]
    /\ UNCHANGED frontendVars

\* rm /tmp/vectordb.tar.gz
RemoveArchive ==
    /\ startup.pc = "rmArchive"
    /\ startup' = [startup EXCEPT !.archive = "none", !.pc = "writeVersion"]
    /\ UNCHANGED frontendVars

\* echo "$VECTORDB_VERSION" > "$VERSION_FILE"
WriteVersion ==
    /\ startup.pc = "writeVersion"
    /\ startup' = [startup EXCEPT
                      !.versionFile = VECTORDB_VERSION,
                      !.stdout = Append(@, "VectorDB ready!"),
                      !.pc = "starting"]
    /\ UNCHANGED frontendVars

\* the else branch of the exit test
ReportFailure ==
    /\ startup.pc = "failed"
    /\ startup' = [startup EXCEPT
                      !.stdout = @ \o <<"ERROR: Failed to download vectordb",
                                        "The API will start but RAG will be empty">>,
                      !.pc = "starting"]
    /\ UNCHANGED frontendVars

\* the else branch of the test of the vector DB
SkipDownload ==
    /\ startup.pc = "found"
    /\ startup' = [startup EXCEPT
                      !.stdout = Append(@, "VectorDB found. Skipping download."),
                      !.pc = "starting"]
    /\ UNCHANGED frontendVars

\* exec uvicorn app.main:app
StartUvicorn ==
    /\ startup.pc = "starting"
    /\ startup' = [startup EXCEPT
                      !.stdout = Append(@, "=== Starting uvicorn ==="),
                      !.pc = "uvicorn"]
    /\ UNCHANGED frontendVars

Init ==
    /\ activeTab = "leverage"
    /\ fields = InitFields("leverage")
    /\ result = Null
    /\ outcome = "idle"
    /\ route = "/calculator"
    /\ calculatorPage = InitCalculatorPage
    /\ chatPage = InitChatPage
    /\ adminPage = InitAdminPage
    /\ documentsPage = InitDocumentsPage
    /\ network = <<>>
    /\ console = {}
    /\ lastEvent = Event("none", Null)
    /\ startup = StartupOf(FALSE, NullId)

Next ==
    \/ \E f \in FieldNames(activeTab) :
          \E s \in FieldTexts(activeTab, f) : SetField(f, s)
    \/ \E tab \in Tabs : SetActiveTab(tab)
    \/ LeverageCalculate
    \/ LCRCalculate
    \/ NSFRCalculate
    \/ MRELCalculate
    \/ IRRBBCalculate

Spec == Init /\ [][Next]_vars

\* the securitization page
NextSec ==
    \/ \E f \in InputNames : \E s \in InputTexts(f) \cup {InitCalculatorPage[f]} :
          SetInput(f, s)
    \/ \E a \in Approaches : SetApproach(a)
    \/ \E b \in BOOLEAN : SetIsSts(b)
    \/ \E tab \in {"securitization", "leverage"} : SetPageTab(tab)
    \/ calculateSecuritization
    \/ compareApproaches
    \/ \E i \in DOMAIN network : \E r \in Responses(network[i]) :
          calculateSecuritizationSettled(i, r)
    \/ \E i \in DOMAIN network : \E r \in Responses(network[i]) :
          compareApproachesSettled(i, r)

SpecSec == Init /\ [][NextSec]_vars

\* the chat page
NextChat ==
    \/ \E s \in ChatTexts : SetChatInput(s)
    \/ \E t \in {EmptyText} \cup ExampleQueries \cup Suggestions(chatPage) :
          sendMessage(t)
    \/ \E i \in DOMAIN network : \E r \in Responses(network[i]) :
          sendMessageSettled(i, r)
    \/ clearChat
    \/ \E source \in RenderedSources(chatPage) \cup {Null} :
          SetSelectedSource(source)

\* the admin page
NextAdmin ==
    \/ loadData
    \/ \E i \in DOMAIN network : \E r \in Responses(network[i]) :
          loadDataSourcesSettled(i, r)
    \/ \E i \in DOMAIN network : \E r \in Responses(network[i]) :
          loadDataStatsSettled(i, r)
    \/ \E sourceId \in SourceIds : discoverDocuments(sourceId)
    \/ \E i \in DOMAIN network : \E r \in Responses(network[i]) :
          discoverDocumentsSettled(i, r)
    \/ \E sourceId \in SourceIds : startScraping(sourceId)
    \/ \E i \in DOMAIN network : \E r \in Responses(network[i]) :
          startScrapingSettled(i, r)
    \/ triggerReindex
    \/ \E i \in DOMAIN network : \E r \in Responses(network[i]) :
          triggerReindexSettled(i, r)
    \/ DismissError

\* the documents page
NextDocuments ==
    \/ \E i \in DOMAIN network : \E r \in Responses(network[i]) :
          fetchStatsSettled(i, r)
    \/ \E s \in SearchTexts : SetSearchQuery(s)
    \/ \E topic \in Topics(documentsPage) \cup {NullId} : SetSelectedTopic(topic)
    \/ \E byButton \in BOOLEAN : handleSearch(byButton)
    \/ \E i \in DOMAIN network : \E r \in Responses(network[i]) :
          handleSearchSettled(i, r)

\* the pages of the application
Routes == {"/chat", "/calculator", "/documents", "/admin"}

\* One page has been loaded and has mounted: the effects of the admin and
\* documents pages have called loadData and fetchStats, which have run up to
\* their first await.
InitApp ==
    /\ activeTab = "leverage"
    /\ fields = InitFields("leverage")
    /\ result = Null
    /\ outcome = "idle"
    /\ route \in Routes
    /\ calculatorPage = InitCalculatorPage
    /\ chatPage = InitChatPage
    /\ adminPage = IF route = "/admin" THEN LoadDataStart(InitAdminPage).page
                   ELSE InitAdminPage
    /\ documentsPage = IF route = "/documents"
                       THEN [InitDocumentsPage EXCEPT !.isLoading = TRUE]
                       ELSE InitDocumentsPage
    /\ network = CASE route = "/admin" -> <<LoadDataStart(InitAdminPage).request>>
                   [] route = "/documents" -> <<[url |-> DocumentsStatsUrl,
                                                 body |-> Null]>>
                   [] OTHER -> <<>>
    /\ console = {}
    /\ lastEvent = Event("none", Null)
    /\ startup = StartupOf(FALSE, NullId)

NextApp == NextSec \/ NextChat \/ NextAdmin \/ NextDocuments

SpecApp == InitApp /\ [][NextApp]_vars

\* The securitization page or the chat page has been loaded, and every fetch
\* in flight settles: the browser fulfils or rejects the promise of a fetch,
\* and the event loop then resumes the handler awaiting it. A request stays
\* in flight until then, so weak fairness of the resumed handlers states it.
InitLoading == InitApp /\ route \in {"/calculator", "/chat"}

NextLoading == NextSec \/ NextChat

SpecLoading ==
    /\ InitLoading
    /\ [][NextLoading]_vars
    /\ WF_vars(\E i \in DOMAIN network : \E r \in Responses(network[i]) :
                   calculateSecuritizationSettled(i, r))
    /\ WF_vars(\E i \in DOMAIN network : \E r \in Responses(network[i]) :
                   compareApproachesSettled(i, r))
    /\ WF_vars(\E i \in DOMAIN network : \E r \in Responses(network[i]) :
                   sendMessageSettled(i, r))

\* The startup script of the backend container, started with any content of
\* the vector DB directory. The shell runs the commands one after the other,
\* and each command ends (curl gives up after its retries).
InitStartup ==
    /\ activeTab = "leverage"
    /\ fields = InitFields("leverage")
    /\ result = Null
    /\ outcome = "idle"
    /\ route = "/calculator"
    /\ calculatorPage = InitCalculatorPage
    /\ chatPage = InitChatPage
    /\ adminPage = InitAdminPage
    /\ documentsPage = InitDocumentsPage
    /\ network = <<>>
    /\ console = {}
    /\ lastEvent = Event("none", Null)
    /\ startup \in {StartupOf(chroma, versionFile) :
                       chroma \in BOOLEAN, versionFile \in VersionFiles}

NextStartup ==
    \/ ReadVersion
    \/ CheckVectorDb
    \/ RemoveOld
    \/ MakeDir
    \/ \E transfer \in {"ok", "http", "transient"} : Download(transfer)
    \/ TestExit
    \/ \E ok \in BOOLEAN : Extract(ok)
    \/ RemoveArchive
    \/ WriteVersion
    \/ ReportFailure
    \/ SkipDownload
    \/ StartUvicorn

SpecStartup == InitStartup /\ [][NextStartup]_vars /\ WF_vars(NextStartup)

\* ------------------------------------------------------------------------
\* Properties
\* ------------------------------------------------------------------------
\* the calculate handler of the mounted calculator was the last event, so
\* fields holds the inputs it read
Calculated(tab) == activeTab = tab /\ outcome # "idle"

\* the number the handler reads from field f
Typed(f) == ParseFloat(fields[f])

\* the amount entered in field f, an empty field counting as 0
Amount(f) == IF IsFinite(Typed(f)) THEN Typed(f).num ELSE 0

\* 100 x net outflows entered in the LCR form, 100 x required stable
\* funding entered in the NSFR form
Outflows100 == 5 * Amount("retailStable") + 10 * Amount("retailLessStable")
Rsf100 == 5 * Amount("hqlaL1") + 65 * Amount("mortgages")

\* C1: when the total exposure measure is 0 the leverage calculation fails
\* with a DivisionByZeroError, an error outcome signalled to the caller
\* rather than silently producing nothing or a number.
C1_ZeroExposureSignalsError ==
    (Calculated("leverage") /\ IsZero(Typed("exposure")))
        => outcome = "DivisionByZeroError"

\* C2: for non-zero tier1 capital T and exposure E the leverage calculator
\* stores the ratio T/E (as a percentage) and compliant is true exactly when
\* T/E >= 3%, exactly 3% being compliant.
C2_LeverageRatioAndCompliance ==
    (Calculated("leverage") /\ Truthy(Typed("tier1")) /\ Truthy(Typed("exposure")))
        => LET T == Typed("tier1").num
               E == Typed("exposure").num
           IN  /\ outcome = "setResult"
               /\ result # Null
               /\ IsFinite(result.ratio)
               /\ result.ratio.num * E = 100 * T * result.ratio.den
               /\ result.compliant =
                    (IF E > 0 THEN 100 * T >= 3 * E ELSE 100 * T <= 3 * E)

\* a ratio of exactly 3% has been calculated and reported compliant
C2_Witness ==
    /\ Calculated("leverage")
    /\ Typed("tier1") = Num(3)
    /\ Typed("exposure") = Num(100)
    /\ result # Null
    /\ result.ratio = Num(3)
    /\ result.compliant

\* the numbers stored in the result of the mounted calculator
ResultNumbers ==
    IF result = Null THEN {}
    ELSE {result[k] : k \in DOMAIN result \ {"compliant"}}

C4_ZeroDenominatorSignalsError ==
    (\/ Calculated("lcr") /\ Outflows100 <= 0
     \/ Calculated("nsfr") /\ Rsf100 = 0)
        => outcome = "DivisionByZeroError"

\* C5: the MREL calculation with total RWA zero or missing fails with a
\* DivisionByZeroError instead of dividing by a substituted denominator.
C5_ZeroRwaSignalsError ==
    (Calculated("mrel") /\ ~Truthy(Typed("rwa")))
        => outcome = "DivisionByZeroError"

\* what calculate stores when it runs on the current fields in a freshly
\* mounted calculator
FreshResult ==
    CASE activeTab = "leverage" ->
           LeverageCalc(fields["tier1"], fields["exposure"], Null).result
      [] activeTab = "lcr" ->
           LCRCalc(fields["hqlaL1"], fields["hqlaL2a"], fields["retailStable"],
                   fields["retailLessStable"], Null).result
      [] activeTab = "nsfr" ->
           NSFRCalc(fields["capitalLT"], fields["stableRetail"],
                    fields["hqlaL1"], fields["mortgages"], Null).result
      [] activeTab = "mrel" ->
           MRELCalc(fields["cet1"], fields["at1"], fields["tier2"],
                    fields["seniorNP"], fields["rwa"], Null).result
      [] activeTab = "irrbb" ->
           IRRBBCalc(fields["gap1y"], fields["gap5y"], fields["gap10y"],
                     fields["tier1"], Null).result

\* C6: the result shown after a calculate click depends on the inputs of
\* that click only: it is the result the same inputs give in a freshly
\* mounted calculator, whatever was calculated before.
C6_ResultDependsOnInputsOnly ==
    outcome # "idle" => result = FreshResult

\* C7: for the LCR and the NSFR calculator with a positive denominator,
\* the stored ratio is numerator / denominator (as a percentage) and
\* compliant is true exactly when that ratio is >= 100%, exactly 100%
\* being compliant.
C7_CompliantIffRatioAtLeastOne ==
    /\ (Calculated("lcr") /\ result # Null /\ result.outflows.num > 0)
        => LET h == result.hqla
               o == result.outflows
               r == result.lcr
           IN  /\ IsFinite(r)
               /\ r.num * o.num * h.den = 100 * h.num * o.den * r.den
               /\ result.compliant = (r.num >= 100 * r.den)
               /\ result.compliant = (h.num * o.den >= o.num * h.den)
    /\ (Calculated("nsfr") /\ result # Null /\ result.rsf.num > 0)
        => LET a == result.asf
               q == result.rsf
               r == result.nsfr
           IN  /\ IsFinite(r)
               /\ r.num * q.num * a.den = 100 * a.num * q.den * r.den
               /\ result.compliant = (r.num >= 100 * r.den)
               /\ result.compliant = (a.num * q.den >= q.num * a.den)

\* an LCR of exactly 100% has been calculated and reported compliant
C7_Witness ==
    /\ Calculated("lcr")
    /\ result # Null
    /\ result.outflows.num > 0
    /\ result.hqla = result.outflows
    /\ result.lcr = Num(100)
    /\ result.compliant

\* C8: with the exposure fixed and non-zero, doubling tier1 capital doubles
\* the leverage ratio reported.
C8_RatioLinearInTier1 ==
    (Calculated("leverage") /\ outcome = "setResult")
        => LET T == Typed("tier1").num
               doubled == LeverageCalc(IntText(2 * T), fields["exposure"], Null)
           IN  /\ doubled.outcome = "setResult"
               /\ doubled.result.ratio.num * result.ratio.den
                    = 2 * result.ratio.num * doubled.result.ratio.den

\* a ratio was calculated for a tier1 capital whose double can be typed too
C8_Witness ==
    /\ Calculated("leverage")
    /\ outcome = "setResult"
    /\ Typed("tier1") = Num(3)
    /\ Typed("exposure") = Num(200)
    /\ IntText(6) \in FieldTexts("leverage", "tier1")
    /\ result.ratio = Rat(3, 2)

\* reading a compliance flag of a result object: a property the object
\* does not have is undefined, not a passed check
PassedCheck(r, k) == k \in DOMAIN r /\ r[k] = TRUE

\* C9: the compliance verdict of an MREL result is the conjunction of three
\* sub-checks (MREL/RWA, MREL/leverage exposure, subordination): it is
\* true only if all three passed.
C9_OverallIsConjunctionOfThree ==
    (Calculated("mrel") /\ result # Null /\ result.compliant)
        => /\ result.mrelRatio.num >= 18 * result.mrelRatio.den
           /\ PassedCheck(result, "compliant_lem")
           /\ PassedCheck(result, "compliant_subordination")

\* C10: for positive total RWA the MREL calculator stores
\* totalMREL = cet1 + at1 + tier2 + senior non-preferred and
\* mrelRatio = totalMREL / rwa (as a percentage), and compliant is true
\* exactly when that ratio is >= 18%, exactly 18% being compliant.
C10_MrelTotalRatioAndRwaCheck ==
    (Calculated("mrel") /\ IsFinite(Typed("rwa")) /\ Typed("rwa").num > 0)
        => LET total == Amount("cet1") + Amount("at1") + Amount("tier2")
                          + Amount("seniorNP")
               R == Typed("rwa").num
           IN  /\ outcome = "setResult"
               /\ result # Null
               /\ result.totalMREL = Num(total)
               /\ IsFinite(result.mrelRatio)
               /\ result.mrelRatio.num * R = 100 * total * result.mrelRatio.den
               /\ result.compliant = (100 * total >= 18 * R)

\* an MREL ratio of exactly 18% has been calculated and reported compliant
C10_Witness ==
    /\ Calculated("mrel")
    /\ Amount("cet1") = 9
    /\ Typed("rwa") = Num(50)
    /\ result # Null
    /\ result.totalMREL = Num(9)
    /\ result.mrelRatio = Num(18)
    /\ result.compliant

\* 100 x the sum over the three buckets of gap x duration x shock, from the
\* gaps entered in the IRRBB form (durations 1, 4.5 and 8 years, shock 2%)
GapImpact100 == 2 * Amount("gap1y") + 9 * Amount("gap5y") + 16 * Amount("gap10y")

\* C11: the IRRBB calculator reports non-compliant exactly when
\* |delta_EVE| / tier1 capital is strictly greater than 15%, and compliant
\* otherwise, for the tier1 capital entered (an impact over a tier1 capital
\* of 0 being above every threshold).
C11_BreachIffAboveFifteenPercent ==
    Calculated("irrbb")
        => LET impact == Div(Abs(result.deltaEVE), Num(Amount("tier1")))
               breach == Gt(impact, Rat(15, 100))
           IN  /\ result # Null
               /\ result.compliant = ~breach

\* C12: delta_EVE = -(gap1y x 1 + gap5y x 4.5 + gap10y x 8) x 2%, a linear
\* form in the three gaps; with every gap 0 (or empty) delta_EVE is 0 and the
\* result is compliant, whatever the tier1 capital entered.
C12_DeltaEveLinearInGaps ==
    Calculated("irrbb")
        => /\ outcome = "setResult"
           /\ result # Null
           /\ result.deltaEVE = Rat(-GapImpact100, 100)
           /\ (Amount("gap1y") = 0 /\ Amount("gap5y") = 0 /\ Amount("gap10y") = 0)
                 => (IsZero(result.deltaEVE) /\ result.compliant)

\* all gaps zero with a tier1 capital of 0 entered: delta_EVE is 0 and the
\* result compliant
C12_Witness ==
    /\ Calculated("irrbb")
    /\ fields["tier1"] = IntText(0)
    /\ fields["gap1y"] = IntText(0)
    /\ Amount("gap5y") = 0
    /\ Amount("gap10y") = 0
    /\ result # Null
    /\ IsZero(result.deltaEVE)
    /\ result.compliant

\* the inputs the form of the mounted calculator offers
HasInputs(names) == names \subseteq DOMAIN fields

Clicked(handler) == lastEvent = Event(handler, Null) /\ handler \in
                        {"calculateSecuritization", "compareApproaches"}

LastRequest == network[Len(network)]

\* the page state had no calculation ever been requested, with the inputs
\* and the tab as they are
NeverRequested ==
    [calculatorPage EXCEPT !.isLoading = FALSE, !.result = Null,
                           !.comparison = Null]

\* C16: once a calculate or compare request has failed (a response with a
\* status that is not ok, or a network failure), what the page shows differs
\* from what it shows when no calculation was ever requested.
C16_FailureIsSurfaced ==
    (lastEvent.response # Null /\ lastEvent.response \in Failures)
        => Render(calculatorPage) # Render(NeverRequested)

\* the page and console the handler of the i-th request in flight leaves
\* when its fetch settles with response r
AfterResponse(i, r) ==
    IF network[i].url = CalculateUrl
    THEN AfterCalculate(calculatorPage, console, r)
    ELSE AfterCompare(calculatorPage, console, r)

\* C17: for a request in flight, what the page shows after a 4xx response
\* (invalid input) differs from what it shows after a network failure
\* (upstream unavailable).
C17_InvalidInputDiffersFromUnavailable ==
    \A i \in DOMAIN network :
        Render(AfterResponse(i, HttpError(422)).page)
            # Render(AfterResponse(i, NetworkError).page)

\* the JSON number j is the number typed as text divided by scale (null
\* when the text is not a number)
SentAs(j, text, scale) ==
    LET v == ParseFloat(text)
    IN  IF IsFinite(v)
        THEN j # Null /\ j.den > 0 /\ j.num * v.den * scale = v.num * j.den
        ELSE j = Null

\* C19: the body of a calculate request carries kirb, lgd, attachment and
\* detachment as the input value divided by 100, maturity and pool_size as
\* the input value, and approach and is_sts as selected.
C19_CalculateBodyScalesPercentInputs ==
    Clicked("calculateSecuritization")
        => LET body == LastRequest.body
               p == calculatorPage
           IN  /\ LastRequest.url = CalculateUrl
               /\ DOMAIN body = {"kirb", "lgd", "maturity", "attachment",
                                 "detachment", "pool_size", "approach", "is_sts"}
               /\ SentAs(body.kirb, p.kirb, 100)
               /\ SentAs(body.lgd, p.lgd, 100)
               /\ SentAs(body.attachment, p.attachment, 100)
               /\ SentAs(body.detachment, p.detachment, 100)
               /\ SentAs(body.maturity, p.maturity, 1)
               /\ SentAs(body.pool_size, p.poolSize, 1)
               /\ body.approach = p.approach
               /\ body.is_sts = p.isSts

\* calculate clicked with lgd 45 typed, SEC-SA and STS selected and the other
\* inputs at their initial texts
C19_Witness ==
    /\ Clicked("calculateSecuritization")
    /\ calculatorPage.lgd = <<"4", "5">>
    /\ LastRequest.body = [kirb |-> Rat(4, 100), lgd |-> Rat(45, 100),
                           maturity |-> Num(4), attachment |-> Rat(5, 100),
                           detachment |-> Rat(15, 100), pool_size |-> Num(1000),
                           approach |-> "SEC-SA", is_sts |-> TRUE]

\* C20: the body of a compare request has the fields of the calculate body
\* for the same form state except approach, with the same values.
C20_CompareBodyIsCalculateBodyMinusApproach ==
    Clicked("compareApproaches")
        => LET body == LastRequest.body
               calc == CalculateBody(calculatorPage)
           IN  /\ LastRequest.url = CompareUrl
               /\ DOMAIN body = DOMAIN calc \ {"approach"}
               /\ \A k \in DOMAIN body : body[k] = calc[k]

\* compare clicked with kirb 2.5 typed: the body carries kirb 0.025, the
\* attachment 0.05 and no approach
C20_Witness ==
    /\ Clicked("compareApproaches")
    /\ calculatorPage.kirb = <<"2", ".", "5">>
    /\ LastRequest.body.kirb = Rat(25, 1000)
    /\ LastRequest.body.attachment = Rat(5, 100)
    /\ "approach" \notin DOMAIN LastRequest.body

\* ------------------------------------------------------------------------
\* Properties of the requests sent by the pages
\* ------------------------------------------------------------------------
\* In a step: whether it resumed a handler after its fetch settled, the
\* requests that were in flight and have settled, and the requests sent.
Resumed == lastEvent'.response # Null

SettledRequests ==
    IF Resumed
    THEN {network[i] : i \in {k \in DOMAIN network :
              /\ Len(network') >= Len(network) - 1
              /\ SubSeq(network', 1, Len(network) - 1) = Settle(k)}}
    ELSE {}

SentRequests ==
    SubSeq(network', Len(network) - (IF Resumed THEN 1 ELSE 0) + 1, Len(network'))

\* C18 (as claimed): requests are sent by user actions only, one request for
\* an action: the step of a user action sends at most one request and a step
\* that resumes a handler after a response or a failure sends none, so the
\* requests sent never outnumber the user actions.
C18_OneRequestPerUserAction ==
    [][Len(SentRequests) <= (IF Resumed THEN 0 ELSE 1)]_vars

\* C18 (amended): no step sends more than one request, and a request that
\* has failed is never sent again by the handler; on the chat, calculator and
\* documents pages only user actions send requests; on the admin page a
\* resumed handler sends a request in two cases: loadData sends the
\* indexed-stats request once its sources fetch has settled without being
\* rejected, and startScraping calls loadData, which sends the sources
\* request, once its scrape request got an ok response.
C18_NoAutomaticReissue ==
    [][LET sent == SentRequests
           r == lastEvent'.response
       IN  /\ Len(sent) <= 1
           /\ Resumed => SettledRequests # {}
           /\ (Resumed /\ sent # <<>>)
                 => /\ route = "/admin"
                    /\ \A req \in SettledRequests :
                          /\ sent[1].url # req.url
                          /\ \/ /\ req.url = SourcesUrl
                                /\ r.kind # "network"
                                /\ sent[1].url = IndexedStatsUrl
                             \/ /\ req.url = ScrapeUrl
                                /\ r.kind = "ok"
                                /\ sent[1].url = SourcesUrl]_vars

\* a scrape request has failed with a network error: the error is shown, no
\* request is in flight and the scrape button is enabled again
C18_Witness ==
    /\ route = "/admin"
    /\ lastEvent = Event("startScraping", NetworkError)
    /\ network = <<>>
    /\ adminPage.error = "Error de conexion"
    /\ adminPage.scrapingSource = NullId

\* ------------------------------------------------------------------------
\* Properties of the requests in flight on the securitization page
\* ------------------------------------------------------------------------
\* C26: on the securitization page at most one request is in flight and the
\* result and the comparison are never both set; a calculate or compare click
\* clears both, and a resumed handler leaves alone the one it did not ask
\* for: calculateSecuritization never changes the comparison and
\* compareApproaches never changes the result.
C26_OneRequestOneOutcome ==
    /\ [](/\ Len(network) <= 1
          /\ ~(calculatorPage.result # Null /\ calculatorPage.comparison # Null))
    /\ [][LET e == lastEvent'
          IN  /\ (e \in {Event("calculateSecuritization", Null),
                          Event("compareApproaches", Null)})
                    => /\ ~calculatorPage.isLoading
                       /\ calculatorPage'.result = Null
                       /\ calculatorPage'.comparison = Null
                       /\ Len(network') = 1
              /\ (e.handler = "calculateSecuritization" /\ e.response # Null)
                    => /\ calculatorPage'.comparison = calculatorPage.comparison
                       /\ calculatorPage'.result \in {Null, e.response.data}
              /\ (e.handler = "compareApproaches" /\ e.response # Null)
                    => /\ calculatorPage'.result = calculatorPage.result
                       /\ calculatorPage'.comparison \in {Null, e.response.data}]_vars

\* a compare request has been answered: the comparison is set, the result is
\* not, and no request is in flight
C26_Witness ==
    /\ lastEvent.handler = "compareApproaches"
    /\ lastEvent.response # Null
    /\ lastEvent.response.kind = "ok"
    /\ calculatorPage.comparison = lastEvent.response.data
    /\ calculatorPage.result = Null
    /\ ~calculatorPage.isLoading
    /\ network = <<>>

\* ------------------------------------------------------------------------
\* Properties of the chat page
\* ------------------------------------------------------------------------
\* the chat requests in flight
ChatRequests == {i \in DOMAIN network : network[i].url = ChatUrl}

\* in a step: a user message is appended to the messages
UserMessageAppended ==
    /\ Len(chatPage'.messages) = Len(chatPage.messages) + 1
    /\ chatPage'.messages[Len(chatPage'.messages)].role = "user"

\* in a step: a chat request is sent
ChatRequestSent ==
    /\ Len(network') = Len(network) + 1
    /\ network'[Len(network')].url = ChatUrl

\* C27: at most one chat request is in flight, and isLoading is true exactly
\* while it is; a step taken while a request is in flight appends no user
\* message and sends no request; a step appends a user message exactly when
\* it sends a chat request, and then the text of the message is not blank and
\* is the message of the request.
C27_SendIsGuarded ==
    /\ [](route = "/chat"
            => /\ Cardinality(ChatRequests) <= 1
               /\ chatPage.isLoading <=> ChatRequests # {})
    /\ [][route = "/chat"
            => /\ chatPage.isLoading => ~UserMessageAppended /\ ~ChatRequestSent
               /\ UserMessageAppended <=> ChatRequestSent
               /\ UserMessageAppended
                    => LET m == chatPage'.messages[Len(chatPage'.messages)]
                       IN  /\ Trim(m.content) # EmptyText
                           /\ network'[Len(network')].body.message = m.content
               /\ lastEvent' = Event("sendMessage.return", Null)
                    => /\ UNCHANGED <<chatPage, network>>
                       /\ \/ chatPage.isLoading
                          \/ Trim(chatPage.input) = EmptyText]_vars

\* sendMessage was called with an example query while a request was in
\* flight (the chat had been cleared) and returned without effect
C27_Witness ==
    /\ route = "/chat"
    /\ lastEvent = Event("sendMessage.return", Null)
    /\ chatPage.isLoading
    /\ chatPage.messages = <<>>
    /\ Cardinality(ChatRequests) = 1

\* the messages of page state p alternate user, assistant, starting with
\* user, and the last one is a user message exactly while the request for
\* it is in flight
Alternates(p) ==
    /\ \A k \in DOMAIN p.messages :
          p.messages[k].role = (IF k % 2 = 1 THEN "user" ELSE "assistant")
    /\ p.isLoading <=> (Len(p.messages) % 2 = 1)

\* C28: in a run without clearChat the messages always alternate user,
\* assistant, starting with user: they do initially, and every step other
\* than clearChat keeps them so. An accepted send appends exactly one user
\* message, and the completion of its request appends exactly one assistant
\* message: the answer on an ok response, the fixed error text otherwise.
C28_MessagesAlternate ==
    /\ (route = "/chat" => Alternates(chatPage))
    /\ [][route = "/chat"
            => LET e == lastEvent'
                   n == Len(chatPage.messages)
               IN  /\ (Alternates(chatPage) /\ e # Event("clearChat", Null))
                         => Alternates(chatPage')
                   /\ e = Event("sendMessage", Null)
                         => /\ Len(chatPage'.messages) = n + 1
                            /\ SubSeq(chatPage'.messages, 1, n) = chatPage.messages
                            /\ chatPage'.messages[n + 1].role = "user"
                   /\ (e.handler = "sendMessage" /\ e.response # Null)
                         => /\ Len(chatPage'.messages) = n + 1
                            /\ SubSeq(chatPage'.messages, 1, n) = chatPage.messages
                            /\ chatPage'.messages[n + 1] =
                                  (IF e.response.kind = "ok"
                                   THEN AssistantMessage(e.response.data)
                                   ELSE ErrorMessage)
                   /\ (e.handler \notin {"sendMessage", "clearChat"})
                         => chatPage'.messages = chatPage.messages]_vars

\* two sends have completed, the first with an answer and the second with a
\* failure: user, answer, user, error text
C28_Witness ==
    /\ route = "/chat"
    /\ Len(chatPage.messages) = 4
    /\ Alternates(chatPage)
    /\ chatPage.messages[2].content = Answer
    /\ chatPage.messages[4] = ErrorMessage
    /\ lastEvent = Event("sendMessage", NetworkError)

\* the chat is as clearChat leaves it: no message and no session id
Cleared(p) == p.messages = <<>> /\ p.sessionId = NullId

\* C24: once clearChat has emptied the messages and reset the session id,
\* both stay so until the user sends the next message: no step other than
\* an accepted send changes them, the completion of a request that was in
\* flight when the chat was cleared included.
C24_ClearedUntilNextSend ==
    [][(/\ route = "/chat"
        /\ Cleared(chatPage)
        /\ lastEvent' # Event("sendMessage", Null))
          => Cleared(chatPage')]_vars

\* C30: the stored session id is the session_id of the most recent ok
\* response received since the last clearChat, or null when there is none:
\* an ok response stores its session_id, clearChat stores null, and a failed
\* request and every other step leave the stored session id unchanged; every
\* chat request sent carries the session id stored when it is sent. (A
\* response received after clearChat counts as received since it, also when
\* its request had been sent before.)
C30_RequestCarriesStoredSession ==
    [][route = "/chat"
         => LET e == lastEvent'
            IN  /\ chatPage'.sessionId =
                      (IF e.response # Null /\ e.response.kind = "ok"
                           /\ e.handler = "sendMessage"
                       THEN e.response.data.session_id
                       ELSE IF e = Event("clearChat", Null) THEN NullId
                       ELSE chatPage.sessionId)
                /\ ChatRequestSent
                      => network'[Len(network')].body.session_id
                             = chatPage.sessionId]_vars

\* the second message of a conversation is being sent with the session id
\* "s2" that the answer to the first one returned
C30_Witness ==
    /\ route = "/chat"
    /\ lastEvent = Event("sendMessage", Null)
    /\ Len(chatPage.messages) = 3
    /\ chatPage.messages[2].content = Answer
    /\ chatPage.sessionId = "s2"
    /\ network[Len(network)].body.session_id = "s2"

\* ------------------------------------------------------------------------
\* Properties of the admin page
\* ------------------------------------------------------------------------
\* C25: while a scrape request for a source is in flight, the scrape button
\* of that source, when the source is listed, is disabled.
C25_ScrapeButtonDisabledWhileInFlight ==
    route = "/admin"
        => \A i \in DOMAIN network :
              (/\ network[i].url = ScrapeUrl
               /\ network[i].body.source_id \in ListedSources(adminPage))
                  => ScrapeDisabled(adminPage, network[i].body.source_id)

\* C22: after an admin request has failed (a response with a status that is
\* not ok, or a network failure), the page holds an error message.
C22_FailedRequestLeavesError ==
    (/\ route = "/admin"
     /\ lastEvent.response # Null
     /\ lastEvent.response \in Failures)
        => adminPage.error # NullId

\* ------------------------------------------------------------------------
\* Properties of isLoading
\* ------------------------------------------------------------------------
\* isLoading of the page loaded
IsLoading == IF route = "/chat" THEN chatPage.isLoading
             ELSE calculatorPage.isLoading

\* C29: a step that sends a request on the securitization or chat page
\* leaves isLoading true; the step that resumes the handler once the request
\* has completed leaves isLoading false, whether the response is ok, not
\* ok, or the fetch was rejected; and, every fetch settling, isLoading true
\* leads to isLoading false.
C29_LoadingEventuallyEnds ==
    /\ [][/\ Len(network') > Len(network) => (~IsLoading /\ IsLoading')
          /\ Resumed => (IsLoading /\ ~IsLoading')]_vars
    /\ (IsLoading ~> ~IsLoading)

\* a chat request has been answered with status 503 and a compare request
\* has been rejected: in both cases isLoading is false again
C29_Witness ==
    /\ ~IsLoading
    /\ network = <<>>
    /\ \/ route = "/chat" /\ lastEvent = Event("sendMessage", HttpError(503))
       \/ route = "/calculator"
            /\ lastEvent = Event("compareApproaches", NetworkError)

DownloadChosen == startup.pc = "check" /\ startup'.pc = "remove"

====
